---------------------------- MODULE Spec2Model ----------------------------
(***************************************************************************)
(* A model of the two DTMF analysis scripts of the Bowie Phone repository: *)
(*                                                                         *)
(*   prog = "report"  src/tools/analyze_audio/analyze_audio.py             *)
(*         per-window analysis, energy gate, tone regions, representative  *)
(*         windows, per-window table, region consensus, gated detections   *)
(*   prog = "sweep"   src/logs/analyze_audio.py                            *)
(*         the parameter sweep: per-window decode with a threshold of      *)
(*         peak_amp * threshold_pct / 100 and the debounce assembler       *)
(*                                                                         *)
(* Abstractions.  The sample buffer is represented by its length and by    *)
(* the features of each analysis window (RMS, peak amplitude, the eight    *)
(* Goertzel magnitudes), which are inputs drawn from WindowKinds when the  *)
(* window is cut.  For the buffers of tone bursts the content is given as  *)
(* well, block by block, and the features of a window are computed from    *)
(* the blocks it covers.  Times are kept as sample indices (the source divides    *)
(* them by the constant sample rate, a strictly increasing map on the      *)
(* indices used; the sweep's durations, which the source multiplies by     *)
(* 1000 / rate, are kept in samples too).  Magnitudes are integers; a float product or quotient    *)
(* that is only compared is modelled by the cross-multiplied comparison.   *)
(* Python's None is the string "None".  Plots, printing and the FFT peak   *)
(* columns of the report (diagnostic output only) are left out.            *)
(***************************************************************************)
EXTENDS Integers, Sequences, FiniteSets, TLC

None == "None"

(***************************************************************************)
(* DTMF constants.                                                         *)
(***************************************************************************)
DTMF_LOW == <<697, 770, 852, 941>>

DTMF_HIGH == <<1209, 1336, 1477, 1633>>

DTMF_MAP_DuplicateZero ==
  ( <<697, 1209>> :> "1" @@ <<697, 1336>> :> "2" @@ <<697, 1477>> :> "3" @@ <<697, 1633>> :> "A" @@
    <<770, 1209>> :> "4" @@ <<770, 1336>> :> "5" @@ <<770, 1477>> :> "6" @@ <<770, 1633>> :> "B" @@
    <<852, 1209>> :> "7" @@ <<852, 1336>> :> "8" @@ <<852, 1477>> :> "9" @@ <<852, 1633>> :> "C" @@
    <<941, 1209>> :> "0" @@ <<941, 1336>> :> "0" @@ <<941, 1477>> :> "#" @@ <<941, 1633>> :> "D" )

DTMF_MAP ==
  ( <<697, 1209>> :> "1" @@ <<697, 1336>> :> "2" @@ <<697, 1477>> :> "3" @@ <<697, 1633>> :> "A" @@
    <<770, 1209>> :> "4" @@ <<770, 1336>> :> "5" @@ <<770, 1477>> :> "6" @@ <<770, 1633>> :> "B" @@
    <<852, 1209>> :> "7" @@ <<852, 1336>> :> "8" @@ <<852, 1477>> :> "9" @@ <<852, 1633>> :> "C" @@
    <<941, 1209>> :> "*" @@ <<941, 1336>> :> "0" @@ <<941, 1477>> :> "#" @@ <<941, 1633>> :> "D" )

\* the frequency lists and keypad table local to detect_dtmf_digit
detect_low_freqs == <<697, 770, 852, 941>>

detect_high_freqs == <<1209, 1336, 1477, 1633>>

detect_dtmf_map ==
  ( <<697, 1209>> :> "1" @@ <<697, 1336>> :> "2" @@ <<697, 1477>> :> "3" @@ <<697, 1633>> :> "A" @@
    <<770, 1209>> :> "4" @@ <<770, 1336>> :> "5" @@ <<770, 1477>> :> "6" @@ <<770, 1633>> :> "B" @@
    <<852, 1209>> :> "7" @@ <<852, 1336>> :> "8" @@ <<852, 1477>> :> "9" @@ <<852, 1633>> :> "C" @@
    <<941, 1209>> :> "*" @@ <<941, 1336>> :> "0" @@ <<941, 1477>> :> "#" @@ <<941, 1633>> :> "D" )

\* the frequency lists and keypad table the sweep rebuilds for every window
sweep_low_freqs == <<697, 770, 852, 941>>

sweep_high_freqs == <<1209, 1336, 1477, 1633>>

sweep_dtmf_map_literal ==
  ( <<697, 1209>> :> "1" @@ <<697, 1336>> :> "2" @@ <<697, 1477>> :> "3" @@ <<697, 1633>> :> "A" @@
    <<770, 1209>> :> "4" @@ <<770, 1336>> :> "5" @@ <<770, 1477>> :> "6" @@ <<770, 1633>> :> "B" @@
    <<852, 1209>> :> "7" @@ <<852, 1336>> :> "8" @@ <<852, 1477>> :> "9" @@ <<852, 1633>> :> "C" @@
    <<941, 1209>> :> "*" @@ <<941, 1336>> :> "0" @@ <<941, 1477>> :> "#" @@ <<941, 1633>> :> "D" )

\* a name not yet bound to a dict
Unbound == [p \in {} |-> ""]

(***************************************************************************)
(* Python helpers.                                                         *)
(***************************************************************************)
\* dict.get(key, default)
DictGet(d, key, default) == IF key \in DOMAIN d THEN d[key] ELSE default

Max2(a, b) == IF a >= b THEN a ELSE b

Min2(a, b) == IF a <= b THEN a ELSE b

\* max(list) of a non-empty list of numbers
MaxOf(s) == CHOOSE m \in {s[j] : j \in DOMAIN s} : \A j \in DOMAIN s : s[j] <= m

\* np.argmax: the first index of the maximum (1-based here)
ArgMax(s) == CHOOSE j \in DOMAIN s :
               /\ \A l \in DOMAIN s : s[l] <= s[j]
               /\ \A l \in DOMAIN s : l < j => s[l] < s[j]

\* the number of occurrences of v in s
Count(s, v) == Cardinality({j \in DOMAIN s : s[j] = v})

MostCommon_LastAmongEquals(s) ==
  LET j == CHOOSE j \in DOMAIN s :
             /\ \A l \in DOMAIN s : Count(s, s[l]) <= Count(s, s[j])
             /\ \A l \in DOMAIN s : l > j => Count(s, s[l]) < Count(s, s[j])
  IN  <<s[j], Count(s, s[j])>>

\* Counter(s).most_common(1)[0] of a non-empty list: <<value, count>> of the
\* value with the highest count, the first one counted among equals
MostCommon(s) ==
  LET j == CHOOSE j \in DOMAIN s :
             /\ \A l \in DOMAIN s : Count(s, s[l]) <= Count(s, s[j])
             /\ \A l \in DOMAIN s : l < j => Count(s, s[l]) < Count(s, s[j])
  IN  <<s[j], Count(s, s[j])>>

\* sorted(list) of numbers, ascending
RECURSIVE SortAsc(_)
SortAsc(s) ==
  IF s = <<>> THEN <<>>
  ELSE LET j == CHOOSE j \in DOMAIN s : \A l \in DOMAIN s : s[j] <= s[l]
           rest == [l \in 1..(Len(s) - 1) |-> IF l < j THEN s[l] ELSE s[l + 1]]
       IN  <<s[j]>> \o SortAsc(rest)

\* np.percentile(s, 95) of a non-empty list, in hundredths: the linear
\* interpolation at position 0.95 * (n - 1) of the sorted list
Percentile95x100(s) ==
  LET srt == SortAsc(s)
      pos == 95 * (Len(s) - 1)
      lo  == pos \div 100
      fr  == pos % 100
  IN  IF lo + 2 <= Len(s)
      THEN 100 * srt[lo + 1] + fr * (srt[lo + 2] - srt[lo + 1])
      ELSE 100 * srt[lo + 1]

(***************************************************************************)
(* Window features: the inputs.  rms and peak are in sample units (16-bit  *)
(* full scale 32768), magnitudes in Goertzel output units.                 *)
(***************************************************************************)
WindowKinds ==
  { \* digital silence
    [rms |-> 0, peak |-> 0,
     goertzel_low |-> <<0, 0, 0, 0>>, goertzel_high |-> <<0, 0, 0, 0>>],
    \* low-amplitude broadband noise, about -40 dBFS
    [rms |-> 328, peak |-> 900,
     goertzel_low |-> <<9000, 12000, 8000, 7000>>,
     goertzel_high |-> <<6000, 5000, 11000, 4000>>],
    \* a loud signal away from the DTMF frequencies (dial tone), two peaks
    [rms |-> 5656, peak |-> 8000,
     goertzel_low |-> <<700, 300, 200, 100>>,
     goertzel_high |-> <<600, 200, 100, 100>>],
    [rms |-> 3535, peak |-> 5000,
     goertzel_low |-> <<700, 300, 200, 100>>,
     goertzel_high |-> <<600, 200, 100, 100>>],
    \* keys 1, 2 and 4
    [rms |-> 10362, peak |-> 14000,
     goertzel_low |-> <<300000, 4000, 3000, 2000>>,
     goertzel_high |-> <<280000, 3000, 2000, 1000>>],
    [rms |-> 12000, peak |-> 16000,
     goertzel_low |-> <<320000, 4000, 3000, 2000>>,
     goertzel_high |-> <<3000, 300000, 2000, 1000>>],
    [rms |-> 10362, peak |-> 14500,
     goertzel_low |-> <<4000, 310000, 3000, 2000>>,
     goertzel_high |-> <<290000, 3000, 2000, 1000>>],
    \* a strong row tone with a weak column tone (twist 6), the column
    \* magnitudes tied between 1336 and 1477
    [rms |-> 9000, peak |-> 12000,
     goertzel_low |-> <<2000, 3000, 300000, 1000>>,
     goertzel_high |-> <<1000, 50000, 50000, 2000>>] }

RmsDb_SilenceIsZeroDb(w_rms) ==
  IF w_rms >= 32768 THEN 0
  ELSE IF w_rms >= 10363 THEN -10
  ELSE IF w_rms >= 3277 THEN -20
  ELSE IF w_rms >= 1037 THEN -30
  ELSE IF w_rms >= 328 THEN -40
  ELSE IF w_rms >= 104 THEN -50
  ELSE IF w_rms >= 33 THEN -60
  ELSE IF w_rms >= 11 THEN -70
  ELSE IF w_rms >= 4 THEN -80
  ELSE IF w_rms >= 2 THEN -90
  ELSE IF w_rms >= 1 THEN -100
  ELSE 0

\* w_rms_db = 20 * log10(w_rms / 32768 + 1e-15), rounded down to a whole dB on
\* a 10 dB grid: an increasing step function of w_rms that is exact at the
\* steps, so that w_rms_db >= -20 is decided as the source decides it
\* (32768 * 10^(-20/20) = 3276.8)
RmsDb(w_rms) ==
  IF w_rms >= 32768 THEN 0
  ELSE IF w_rms >= 10363 THEN -10
  ELSE IF w_rms >= 3277 THEN -20
  ELSE IF w_rms >= 1037 THEN -30
  ELSE IF w_rms >= 328 THEN -40
  ELSE IF w_rms >= 104 THEN -50
  ELSE IF w_rms >= 33 THEN -60
  ELSE IF w_rms >= 11 THEN -70
  ELSE IF w_rms >= 4 THEN -80
  ELSE IF w_rms >= 2 THEN -90
  ELSE IF w_rms >= 1 THEN -100
  ELSE -300

(***************************************************************************)
(* Bounds of the model.                                                    *)
(***************************************************************************)
\* the longest buffer of the report holds this many analysis windows
MaxWindows == 4

\* the longest buffer of the sweep holds this many hops of its 100 ms windows
MaxSweepHops == 3

\* the longest tone burst and the longest silence between bursts, in blocks
MaxBurstBlocks == 4

MaxGapBlocks == 3

\* len(seq[offset:offset + n]) of a sequence of length len, offset >= 0, n >= 0
SliceLen(offset, n, len) == Min2(offset + n, len) - Min2(offset, len)

(***************************************************************************)
(* The report tool: configuration.                                         *)
(***************************************************************************)
rate == 22050

window_ms == 250

window_n == (window_ms * rate) \div 1000

hop_n == window_n \div 2

energy_threshold_db == -20

default_noise_floor_g == 1000

\* buffer lengths: the window loop range(0, len(data) - window_n, hop_n) cuts
\* n windows from a buffer of window_n + n * hop_n samples; a buffer of hop_n
\* samples is shorter than one window
ReportDataLens == {hop_n} \cup {window_n + n * hop_n : n \in 0..MaxWindows}

(***************************************************************************)
(* Buffers of tone bursts.  The content is a sequence of blocks of block_n *)
(* samples (a quarter of a window, half a hop), each block digital silence *)
(* or the two tones of one key, each tone a sine of amplitude amp, so that *)
(* the block's RMS is amp.                                                 *)
(***************************************************************************)
block_n == hop_n \div 2

Silence == [digit |-> None, amp |-> 0]

Tone(d, a) == [digit |-> d, amp |-> a]

Rep(x, n) == [j \in 1..n |-> x]

\* the bursts 1, 4, 7, * of burst blocks each at level amp, gap blocks of
\* silence between them, lead blocks of silence before and a full window of
\* silence after
BurstBuffer(lead, burst, gap, amp) ==
  Rep(Silence, lead)
  \o Rep(Tone("1", amp), burst) \o Rep(Silence, gap)
  \o Rep(Tone("4", amp), burst) \o Rep(Silence, gap)
  \o Rep(Tone("7", amp), burst) \o Rep(Silence, gap)
  \o Rep(Tone("*", amp), burst) \o Rep(Silence, window_n \div block_n)

\* the shortest burst of at least 150 ms and the shortest gap of at least
\* 100 ms, in blocks
MinBurstBlocks == (150 * rate) \div (1000 * block_n) + 1

MinGapBlocks == (100 * rate) \div (1000 * block_n) + 1

\* the tone levels: -10 dBFS and about -16 dBFS
BurstLevels == {10362, 5000}

BurstBuffers ==
  {BurstBuffer(lead, burst, gap, amp) :
     lead \in 0..1, burst \in MinBurstBlocks..MaxBurstBlocks,
     gap \in MinGapBlocks..MaxGapBlocks, amp \in BurstLevels}

RECURSIVE SumSeq(_)
SumSeq(s) == IF s = <<>> THEN 0 ELSE Head(s) + SumSeq(Tail(s))

\* np.sqrt of a mean square, rounded down to a whole sample unit
ISqrt(n) == CHOOSE r \in 0..32768 : r * r <= n /\ n < (r + 1) * (r + 1)

\* the row and column frequency of a key
KeyLow(d) == CHOOSE f \in {DTMF_LOW[j] : j \in 1..4} :
               \E h \in {DTMF_HIGH[j] : j \in 1..4} : DTMF_MAP[<<f, h>>] = d

KeyHigh(d) == CHOOSE h \in {DTMF_HIGH[j] : j \in 1..4} :
                \E f \in {DTMF_LOW[j] : j \in 1..4} : DTMF_MAP[<<f, h>>] = d

\* the Goertzel magnitude at freq of the chunk made of blocks: a sine of
\* amplitude amp over n samples gives amp * n / 2; the blocks that hold the
\* frequency add up (phase-continuous bursts), the others give nothing.  In
\* hundreds of output units, the scale of WindowKinds.
ChunkGoertzel(blocks, freq, low) ==
  SumSeq([j \in DOMAIN blocks |->
            IF blocks[j].digit # None
               /\ freq = (IF low THEN KeyLow(blocks[j].digit) ELSE KeyHigh(blocks[j].digit))
            THEN (blocks[j].amp * (block_n \div 2)) \div 100
            ELSE 0])

\* the features of chunk = data[offset:offset + window_n] of a buffer given
\* block by block
ChunkFeatures(buf, offset) ==
  LET blocks == [j \in 1..(window_n \div block_n) |-> buf[offset \div block_n + j]]
      mean_sq == SumSeq([j \in DOMAIN blocks |-> blocks[j].amp * blocks[j].amp])
                   \div Len(blocks)
  IN  [rms           |-> ISqrt(mean_sq),
       goertzel_low  |-> [j \in 1..4 |-> ChunkGoertzel(blocks, DTMF_LOW[j], TRUE)],
       goertzel_high |-> [j \in 1..4 |-> ChunkGoertzel(blocks, DTMF_HIGH[j], FALSE)]]

\* what the window cut at offset can hold
WindowInputs(buf, offset) ==
  IF buf = <<>> THEN WindowKinds ELSE {ChunkFeatures(buf, offset)}

VARIABLES
  prog,                    \* which script runs: "report" or "sweep"
  pc,                      \* the position in that script
  data_len,                \* len(data)
  data,                    \* the buffer's content in blocks of block_n samples,
                           \* or <<>> when only its length is given
  i,                       \* the window loop's offset
  windows,                 \* report: the per-window dicts
  active_windows,
  noise_windows,
  in_region,
  region_start,
  tone_regions,            \* list of <<start, end>>
  w_idx,                   \* the region scan's position in windows (1-based)
  representative_windows,
  window_table,
  tone_region_analysis,
  noise_floor_g,           \* in hundredths of a magnitude unit
  abs_goertzel_threshold,  \* in hundredths of a magnitude unit
  gated_detections,
  param_idx,               \* sweep: index into param_sets (1-based)
  detected_digits,
  last_digit,
  digit_start,
  digit_info,
  dtmf_map,
  sweep_log,               \* sweep: the locals of each window of the current run,
                           \* with its offset i and its parameter set
  samples,                 \* goertzel: the window it is called on
  target_freq,             \* goertzel: the frequency it is called for
  magnitude,               \* goertzel: <<>> before the call, then <<m>>, m
                           \* being four times the square of the returned value
  half_magnitude,          \* <<>>, or <<m>> for the call on the same window at
                           \* half the amplitude
  firmware_exists,         \* deploy: os.path.exists(firmware_path)
  returncode,              \* deploy: what each command will end with: its
                           \* return code, or -1 when subprocess.run raises
  step,                    \* deploy: the position in upload_via_unraid
  calls,                   \* deploy: the commands run and the sleep, in order
  printed,                 \* deploy: the outcome messages printed, in order
  exit_status,             \* deploy: "running", "returned" or "exit 1"
  running,                 \* serial tester: self.running
  output_lock,             \* serial tester: the holder of self.output_lock,
                           \* "reader", "main" or "free"
  pending,                 \* serial tester: the lines the device has yet to send
  text,                    \* serial tester: the line the reader thread has read
  last_state,              \* serial tester: self.last_state
  reader_pc,               \* serial tester: the reader thread's position
  main_pc                  \* serial tester: the main thread's position

report_vars == <<windows, active_windows, noise_windows, in_region, region_start,
                 tone_regions, w_idx, representative_windows, window_table,
                 tone_region_analysis, noise_floor_g, abs_goertzel_threshold,
                 gated_detections>>

sweep_vars == <<param_idx, detected_digits, last_digit, digit_start, digit_info,
                dtmf_map, sweep_log>>

goertzel_vars == <<samples, target_freq, magnitude, half_magnitude>>

deploy_vars == <<firmware_exists, returncode, step, calls, printed, exit_status>>

serial_vars == <<running, output_lock, pending, text, last_state, reader_pc, main_pc>>

\* the state of the functions and tools that are modelled on their own
tool_vars == <<goertzel_vars, deploy_vars, serial_vars>>

vars == <<prog, pc, data_len, data, i, report_vars, sweep_vars, tool_vars>>

\* the commands that the deployment runs through run_command
Commands == {"scp", "prepareota", "update"}

\* no deployment is being followed
DeployIdle ==
  /\ firmware_exists = FALSE
  /\ returncode = [c \in Commands |-> 0]
  /\ step = "none"
  /\ calls = <<>>
  /\ printed = <<>>
  /\ exit_status = "running"

\* self.last_state as __init__ leaves it
InitialLastState ==
  [hook |-> None, audio_playing |-> FALSE, last_sequence |-> None,
   errors |-> <<>>, warnings |-> <<>>]

\* no session of the serial tester is being followed
SerialIdle ==
  /\ running = FALSE
  /\ output_lock = "free"
  /\ pending = <<>>
  /\ text = ""
  /\ last_state = InitialLastState
  /\ reader_pc = "none"
  /\ main_pc = "none"

\* no call of goertzel on a window of samples is being followed
GoertzelIdle ==
  /\ samples = <<>>
  /\ target_freq = 0
  /\ magnitude = <<>>
  /\ half_magnitude = <<>>

(***************************************************************************)
(* The report tool: per-window analysis.                                   *)
(***************************************************************************)
IsActive(w) == w.rms_db >= energy_threshold_db

\* a window loop that stamps each window with its start offset
WindowLoop_StartTimes ==
  /\ prog = "report" /\ pc = "windows"
  /\ i < data_len - window_n
  /\ \E k \in WindowInputs(data, i) :
       windows' = Append(windows,
                    [time          |-> i,
                     rms           |-> k.rms,
                     rms_db        |-> RmsDb(k.rms),
                     goertzel_low  |-> k.goertzel_low,
                     goertzel_high |-> k.goertzel_high])
  /\ i' = i + hop_n
  /\ UNCHANGED <<tool_vars, prog, pc, data_len, data, active_windows, noise_windows, in_region,
                 region_start, tone_regions, w_idx, representative_windows,
                 window_table, tone_region_analysis, noise_floor_g,
                 abs_goertzel_threshold, gated_detections, sweep_vars>>

\* one iteration of: for i in range(0, len(data) - window_n, hop_n)
WindowLoop ==
  /\ prog = "report" /\ pc = "windows"
  /\ i < data_len - window_n
  /\ \E k \in WindowInputs(data, i) :
       windows' = Append(windows,
                    [time          |-> i + window_n \div 2,
                     rms           |-> k.rms,
                     rms_db        |-> RmsDb(k.rms),
                     goertzel_low  |-> k.goertzel_low,
                     goertzel_high |-> k.goertzel_high])
  /\ i' = i + hop_n
  /\ UNCHANGED <<tool_vars, prog, pc, data_len, data, active_windows, noise_windows, in_region,
                 region_start, tone_regions, w_idx, representative_windows,
                 window_table, tone_region_analysis, noise_floor_g,
                 abs_goertzel_threshold, gated_detections, sweep_vars>>

\* the range is exhausted: the energy gate splits the windows, and the region
\* scan's state is initialised
EnergyGate ==
  /\ prog = "report" /\ pc = "windows"
  /\ ~(i < data_len - window_n)
  /\ active_windows' = SelectSeq(windows, LAMBDA w : w.rms_db >= energy_threshold_db)
  /\ noise_windows' = SelectSeq(windows, LAMBDA w : w.rms_db < energy_threshold_db)
  /\ tone_regions' = <<>>
  /\ in_region' = FALSE
  /\ region_start' = None
  /\ w_idx' = 1
  /\ pc' = "regions"
  /\ UNCHANGED <<tool_vars, prog, data_len, data, i, windows, representative_windows,
                 window_table, tone_region_analysis, noise_floor_g,
                 abs_goertzel_threshold, gated_detections, sweep_vars>>

(***************************************************************************)
(* The report tool: tone regions.                                          *)
(***************************************************************************)
RegionStep_CloseAtLastActive ==
  /\ prog = "report" /\ pc = "regions"
  /\ w_idx <= Len(windows)
  /\ LET w == windows[w_idx] IN
       IF w.rms_db >= energy_threshold_db
       THEN /\ in_region' = TRUE
            /\ region_start' = IF ~in_region THEN w.time ELSE region_start
            /\ UNCHANGED tone_regions
       ELSE /\ in_region' = FALSE
            /\ tone_regions' = IF in_region
                               THEN Append(tone_regions,
                                           <<region_start, windows[w_idx - 1].time>>)
                               ELSE tone_regions
            /\ UNCHANGED region_start
  /\ w_idx' = w_idx + 1
  /\ UNCHANGED <<tool_vars, prog, pc, data_len, data, i, windows, active_windows, noise_windows,
                 representative_windows, window_table, tone_region_analysis,
                 noise_floor_g, abs_goertzel_threshold, gated_detections,
                 sweep_vars>>

\* one iteration of: for w in windows
RegionStep ==
  /\ prog = "report" /\ pc = "regions"
  /\ w_idx <= Len(windows)
  /\ LET w == windows[w_idx] IN
       IF w.rms_db >= energy_threshold_db
       THEN /\ in_region' = TRUE
            /\ region_start' = IF ~in_region THEN w.time ELSE region_start
            /\ UNCHANGED tone_regions
       ELSE /\ in_region' = FALSE
            /\ tone_regions' = IF in_region
                               THEN Append(tone_regions, <<region_start, w.time>>)
                               ELSE tone_regions
            /\ UNCHANGED region_start
  /\ w_idx' = w_idx + 1
  /\ UNCHANGED <<tool_vars, prog, pc, data_len, data, i, windows, active_windows, noise_windows,
                 representative_windows, window_table, tone_region_analysis,
                 noise_floor_g, abs_goertzel_threshold, gated_detections,
                 sweep_vars>>

RegionsEnd_LeaveOpen ==
  /\ prog = "report" /\ pc = "regions"
  /\ w_idx > Len(windows)
  /\ pc' = "representative"
  /\ UNCHANGED <<tool_vars, prog, data_len, data, i, windows, active_windows, noise_windows,
                 in_region, region_start, tone_regions, w_idx,
                 representative_windows, window_table, tone_region_analysis,
                 noise_floor_g, abs_goertzel_threshold, gated_detections,
                 sweep_vars>>

\* after the loop: if in_region: tone_regions.append((region_start, windows[-1]['time']))
RegionsEnd ==
  /\ prog = "report" /\ pc = "regions"
  /\ w_idx > Len(windows)
  /\ tone_regions' = IF in_region
                     THEN Append(tone_regions,
                                 <<region_start, windows[Len(windows)].time>>)
                     ELSE tone_regions
  /\ pc' = "representative"
  /\ UNCHANGED <<tool_vars, prog, data_len, data, i, windows, active_windows, noise_windows,
                 in_region, region_start, w_idx, representative_windows,
                 window_table, tone_region_analysis, noise_floor_g,
                 abs_goertzel_threshold, gated_detections, sweep_vars>>

\* max(region_wins, key=lambda w: w['rms']): the first window of the highest rms
MaxByRms_Lowest(wins) ==
  wins[CHOOSE j \in DOMAIN wins :
         /\ \A l \in DOMAIN wins : wins[l].rms >= wins[j].rms
         /\ \A l \in DOMAIN wins : l < j => wins[l].rms > wins[j].rms]

\* the last candidate instead of the loudest
MaxByRms_Last(wins) == wins[Len(wins)]

MaxByRms(wins) == wins[ArgMax([j \in DOMAIN wins |-> wins[j].rms])]

\* the windows with r_start <= time <= r_end (the representative's candidates)
RegionWinsClosed(wins, r_start, r_end) ==
  SelectSeq(wins, LAMBDA w : r_start <= w.time /\ w.time <= r_end)

RECURSIVE RepresentativeOf(_, _)
RepresentativeOf(regions, wins) ==
  IF regions = <<>> THEN <<>>
  ELSE LET region_wins == RegionWinsClosed(wins, Head(regions)[1], Head(regions)[2])
       IN  (IF region_wins # <<>> THEN <<MaxByRms(region_wins)>> ELSE <<>>)
           \o RepresentativeOf(Tail(regions), wins)

\* the loop that picks the highest-energy window of each region
PickRepresentatives ==
  /\ prog = "report" /\ pc = "representative"
  /\ representative_windows' = RepresentativeOf(tone_regions, windows)
  /\ pc' = "heatmap"
  /\ UNCHANGED <<tool_vars, prog, data_len, data, i, windows, active_windows, noise_windows,
                 in_region, region_start, tone_regions, w_idx, window_table,
                 tone_region_analysis, noise_floor_g, abs_goertzel_threshold,
                 gated_detections, sweep_vars>>

\* the Goertzel heatmap plot: time_edges reads times_arr[-1], which raises
\* IndexError when there is no window; the script has no handler
GoertzelHeatmap ==
  /\ prog = "report" /\ pc = "heatmap"
  /\ pc' = IF windows = <<>> THEN "IndexError" ELSE "table"
  /\ UNCHANGED <<tool_vars, prog, data_len, data, i, windows, active_windows, noise_windows,
                 in_region, region_start, tone_regions, w_idx,
                 representative_windows, window_table, tone_region_analysis,
                 noise_floor_g, abs_goertzel_threshold, gated_detections,
                 sweep_vars>>

(***************************************************************************)
(* The report tool: per-window table and tone region analysis.             *)
(***************************************************************************)
\* the row of one active window; g_twist = max / max(min, 1e-10) is kept as
\* the pair num / den (den = 0 stands for the guard value 1e-10)
WindowRow(w) ==
  LET g_low_idx   == ArgMax(w.goertzel_low)
      g_high_idx  == ArgMax(w.goertzel_high)
      g_low_freq  == DTMF_LOW[g_low_idx]
      g_high_freq == DTMF_HIGH[g_high_idx]
      g_low_mag   == w.goertzel_low[g_low_idx]
      g_high_mag  == w.goertzel_high[g_high_idx]
  IN  [time        |-> w.time,
       rms_db      |-> w.rms_db,
       g_low_freq  |-> g_low_freq,
       g_low_mag   |-> g_low_mag,
       g_high_freq |-> g_high_freq,
       g_high_mag  |-> g_high_mag,
       g_digit     |-> DictGet(DTMF_MAP, <<g_low_freq, g_high_freq>>, "?"),
       g_twist     |-> [num |-> Max2(g_low_mag, g_high_mag),
                        den |-> Min2(g_low_mag, g_high_mag)]]

RECURSIVE WindowTableOf(_)
WindowTableOf(wins) ==
  IF wins = <<>> THEN <<>>
  ELSE (IF Head(wins).rms_db < energy_threshold_db THEN <<>>
        ELSE <<WindowRow(Head(wins))>>)
       \o WindowTableOf(Tail(wins))

BuildWindowTable ==
  /\ prog = "report" /\ pc = "table"
  /\ window_table' = WindowTableOf(windows)
  /\ pc' = "analysis"
  /\ UNCHANGED <<tool_vars, prog, data_len, data, i, windows, active_windows, noise_windows,
                 in_region, region_start, tone_regions, w_idx,
                 representative_windows, tone_region_analysis, noise_floor_g,
                 abs_goertzel_threshold, gated_detections, sweep_vars>>

\* the active windows with r_start <= time <= r_end (the consensus voters)
\* membership by an open interval
RegionWins_OpenInterval(wins, r_start, r_end) ==
  SelectSeq(wins, LAMBDA w : /\ r_start < w.time /\ w.time < r_end
                             /\ w.rms_db >= energy_threshold_db)

RegionWins(wins, r_start, r_end) ==
  SelectSeq(wins, LAMBDA w : /\ r_start <= w.time /\ w.time <= r_end
                             /\ w.rms_db >= energy_threshold_db)

\* the body of the region loop for region number idx + 1 = n
RegionEntry(n, r_start, r_end, region_wins) ==
  LET g_low_vals  == [j \in DOMAIN region_wins |->
                        DTMF_LOW[ArgMax(region_wins[j].goertzel_low)]]
      g_high_vals == [j \in DOMAIN region_wins |->
                        DTMF_HIGH[ArgMax(region_wins[j].goertzel_high)]]
      g_low_consensus  == MostCommon(g_low_vals)
      g_high_consensus == MostCommon(g_high_vals)
  IN  [region      |-> n,
       start       |-> r_start,
       end         |-> r_end,
       duration    |-> r_end - r_start,
       num_windows |-> Len(region_wins),
       g_low_freq  |-> g_low_consensus[1],
       g_low_count |-> g_low_consensus[2],
       g_high_freq |-> g_high_consensus[1],
       g_high_count |-> g_high_consensus[2],
       g_digit     |-> DictGet(DTMF_MAP,
                               <<g_low_consensus[1], g_high_consensus[1]>>, "?")]

RECURSIVE RegionAnalysisOf(_, _, _)
RegionAnalysisOf(regions, n, wins) ==
  IF regions = <<>> THEN <<>>
  ELSE LET region_wins == RegionWins(wins, Head(regions)[1], Head(regions)[2])
       IN  (IF region_wins = <<>> THEN <<>>
            ELSE <<RegionEntry(n, Head(regions)[1], Head(regions)[2], region_wins)>>)
           \o RegionAnalysisOf(Tail(regions), n + 1, wins)

AnalyzeRegions ==
  /\ prog = "report" /\ pc = "analysis"
  /\ tone_region_analysis' = RegionAnalysisOf(tone_regions, 1, windows)
  /\ pc' = "gated"
  /\ UNCHANGED <<tool_vars, prog, data_len, data, i, windows, active_windows, noise_windows,
                 in_region, region_start, tone_regions, w_idx,
                 representative_windows, window_table, noise_floor_g,
                 abs_goertzel_threshold, gated_detections, sweep_vars>>

(***************************************************************************)
(* The report tool: energy-gated detection.                                *)
(***************************************************************************)
\* noise_floor_g in hundredths: the 95th percentile of the noise windows'
\* largest Goertzel magnitude, or the default 1000.0
NoiseFloorOf(noise_wins) ==
  IF noise_wins # <<>>
  THEN Percentile95x100([j \in DOMAIN noise_wins |->
                           Max2(MaxOf(noise_wins[j].goertzel_low),
                                MaxOf(noise_wins[j].goertzel_high))])
  ELSE 100 * default_noise_floor_g

GatedOf(analysis) ==
  [j \in DOMAIN analysis |->
     [digit      |-> analysis[j].g_digit,
      start_time |-> analysis[j].start,
      end_time   |-> analysis[j].end,
      duration   |-> analysis[j].duration]]

GatedDetection_FloorFromAllWindows ==
  /\ prog = "report" /\ pc = "gated"
  /\ noise_floor_g' = NoiseFloorOf(windows)
  /\ abs_goertzel_threshold' = NoiseFloorOf(windows) * 10
  /\ gated_detections' = GatedOf(tone_region_analysis)
  /\ pc' = "done"
  /\ UNCHANGED <<tool_vars, prog, data_len, data, i, windows, active_windows, noise_windows,
                 in_region, region_start, tone_regions, w_idx,
                 representative_windows, window_table, tone_region_analysis,
                 sweep_vars>>

GatedDetection ==
  /\ prog = "report" /\ pc = "gated"
  /\ noise_floor_g' = NoiseFloorOf(noise_windows)
  /\ abs_goertzel_threshold' = NoiseFloorOf(noise_windows) * 10
  /\ gated_detections' = GatedOf(tone_region_analysis)
  /\ pc' = "done"
  /\ UNCHANGED <<tool_vars, prog, data_len, data, i, windows, active_windows, noise_windows,
                 in_region, region_start, tone_regions, w_idx,
                 representative_windows, window_table, tone_region_analysis,
                 sweep_vars>>

RECURSIVE JoinDigits_Reversed(_)
JoinDigits_Reversed(ds) ==
  IF ds = <<>> THEN <<>> ELSE JoinDigits_Reversed(Tail(ds)) \o <<Head(ds).digit>>

\* ''.join(d['digit'] for d in gated_detections)
RECURSIVE JoinDigits(_)
JoinDigits(ds) == IF ds = <<>> THEN <<>> ELSE <<Head(ds).digit>> \o JoinDigits(Tail(ds))

gated_sequence == JoinDigits(gated_detections)

ReportNext ==
  \/ WindowLoop
  \/ EnergyGate
  \/ RegionStep
  \/ RegionsEnd
  \/ PickRepresentatives
  \/ GoertzelHeatmap
  \/ BuildWindowTable
  \/ AnalyzeRegions
  \/ GatedDetection

(***************************************************************************)
(* The parameter sweep: configuration.                                     *)
(***************************************************************************)
sweep_rate == 11025

\* overlap is kept in percent (0.5 -> 50, 0.25 -> 25)
param_sets ==
  << [window_ms |-> 100, threshold_pct |-> 10, twist_ratio |-> 4, overlap |-> 50],
     [window_ms |-> 100, threshold_pct |-> 15, twist_ratio |-> 4, overlap |-> 50],
     [window_ms |-> 100, threshold_pct |-> 20, twist_ratio |-> 4, overlap |-> 50],
     [window_ms |-> 100, threshold_pct |-> 25, twist_ratio |-> 4, overlap |-> 50],
     [window_ms |-> 100, threshold_pct |-> 30, twist_ratio |-> 4, overlap |-> 50],
     [window_ms |-> 150, threshold_pct |-> 20, twist_ratio |-> 3, overlap |-> 50],
     [window_ms |-> 150, threshold_pct |-> 25, twist_ratio |-> 3, overlap |-> 50],
     [window_ms |-> 150, threshold_pct |-> 30, twist_ratio |-> 3, overlap |-> 50],
     [window_ms |-> 200, threshold_pct |-> 25, twist_ratio |-> 3, overlap |-> 25],
     [window_ms |-> 200, threshold_pct |-> 30, twist_ratio |-> 3, overlap |-> 25],
     [window_ms |-> 200, threshold_pct |-> 35, twist_ratio |-> 3, overlap |-> 25] >>

\* window_samples = int(window_ms * rate / 1000)
window_samples(params) == (params.window_ms * sweep_rate) \div 1000

hop_samples_InSeconds(params) ==
  ((params.window_ms * (100 - params.overlap)) \div 100) \div 1000

\* hop_samples = int(window_samples * (1 - overlap))
hop_samples(params) == (window_samples(params) * (100 - params.overlap)) \div 100

\* buffer lengths: the first parameter set cuts n windows from a buffer of
\* window_samples + n * hop_samples samples
SweepDataLens ==
  {window_samples(param_sets[1]) + n * hop_samples(param_sets[1]) : n \in 0..MaxSweepHops}

(***************************************************************************)
(* The parameter sweep: per-window decode.                                 *)
(***************************************************************************)
SweepDecode_SwappedIndices(w, params, map) ==
  LET low_idx   == ArgMax(w.goertzel_low)
      high_idx  == ArgMax(w.goertzel_high)
      low_mag   == w.goertzel_low[low_idx]
      high_mag  == w.goertzel_high[high_idx]
      peak_amp  == w.peak
      threshold == peak_amp * params.threshold_pct
      ratio     == [num |-> Max2(low_mag, high_mag), den |-> Min2(low_mag, high_mag)]
      digit     == IF 100 * low_mag > threshold /\ 100 * high_mag > threshold
                   THEN IF ratio.num < params.twist_ratio * ratio.den
                        THEN DictGet(map, <<sweep_low_freqs[high_idx],
                                            sweep_high_freqs[low_idx]>>, None)
                        ELSE None
                   ELSE None
  IN  [window    |-> w,
       low_freq  |-> sweep_low_freqs[low_idx],
       high_freq |-> sweep_high_freqs[high_idx],
       low_mag   |-> low_mag,
       high_mag  |-> high_mag,
       peak_amp  |-> peak_amp,
       threshold |-> threshold,
       twist     |-> ratio,
       digit     |-> digit]

\* the locals of one window of the sweep loop; w holds the window's features,
\* threshold = peak_amp * (threshold_pct / 100) is kept in hundredths and
\* ratio as the pair num / den
SweepDecode(w, params, map) ==
  LET low_idx   == ArgMax(w.goertzel_low)
      high_idx  == ArgMax(w.goertzel_high)
      low_mag   == w.goertzel_low[low_idx]
      high_mag  == w.goertzel_high[high_idx]
      peak_amp  == w.peak
      threshold == peak_amp * params.threshold_pct
      ratio     == [num |-> Max2(low_mag, high_mag), den |-> Min2(low_mag, high_mag)]
      digit     == IF 100 * low_mag > threshold /\ 100 * high_mag > threshold
                   THEN IF ratio.num < params.twist_ratio * ratio.den
                        THEN DictGet(map, <<sweep_low_freqs[low_idx],
                                            sweep_high_freqs[high_idx]>>, None)
                        ELSE None
                   ELSE None
  IN  [window    |-> w,
       low_freq  |-> sweep_low_freqs[low_idx],
       high_freq |-> sweep_high_freqs[high_idx],
       low_mag   |-> low_mag,
       high_mag  |-> high_mag,
       peak_amp  |-> peak_amp,
       threshold |-> threshold,
       twist     |-> ratio,
       digit     |-> digit]

detect_twist_ratio == 4

detect_threshold_pct == 10

\* detect_dtmf_digit(samples, sample_rate); np.max(samples) is the window's
\* peak (the kinds' waveforms reach it on the positive side)
detect_dtmf_digit(w) ==
  LET low_idx   == ArgMax(w.goertzel_low)
      high_idx  == ArgMax(w.goertzel_high)
      low_mag   == w.goertzel_low[low_idx]
      high_mag  == w.goertzel_high[high_idx]
      threshold == w.peak * detect_threshold_pct
  IN  IF /\ 100 * low_mag > threshold /\ 100 * high_mag > threshold
         /\ Max2(low_mag, high_mag) < detect_twist_ratio * Min2(low_mag, high_mag)
      THEN <<DictGet(detect_dtmf_map, <<detect_low_freqs[low_idx],
                                        detect_high_freqs[high_idx]>>, None),
             detect_low_freqs[low_idx], detect_high_freqs[high_idx],
             low_mag, high_mag>>
      ELSE <<None, None, None, low_mag, high_mag>>

(***************************************************************************)
(* The parameter sweep: the loop over parameter sets and the assembler.    *)
(***************************************************************************)
\* the head of the loop over param_sets: a fresh assembler state
\* a loop over the parameter sets that initialises the assembler only once
SweepStart_KeepsState ==
  /\ prog = "sweep" /\ pc = "params"
  /\ param_idx <= Len(param_sets)
  /\ sweep_log' = <<>>
  /\ i' = 0
  /\ pc' = "sweep_loop"
  /\ UNCHANGED <<tool_vars, prog, data_len, data, param_idx, dtmf_map, report_vars,
                 detected_digits, last_digit, digit_start, digit_info>>

SweepStart ==
  /\ prog = "sweep" /\ pc = "params"
  /\ param_idx <= Len(param_sets)
  /\ detected_digits' = <<>>
  /\ last_digit' = None
  /\ digit_start' = None
  /\ digit_info' = <<>>
  /\ sweep_log' = <<>>
  /\ i' = 0
  /\ pc' = "sweep_loop"
  /\ UNCHANGED <<tool_vars, prog, data_len, data, param_idx, dtmf_map, report_vars>>

\* an assembler that stores with an event the info of the window that closes it
SweepWindow_InfoOfClosingWindow ==
  /\ prog = "sweep" /\ pc = "sweep_loop"
  /\ i < data_len - window_samples(param_sets[param_idx])
  /\ \E k \in WindowKinds :
       LET params == param_sets[param_idx]
           d      == SweepDecode(k, params, sweep_dtmf_map_literal)
           info   == [low_freq |-> d.low_freq, high_freq |-> d.high_freq,
                      low_mag |-> d.low_mag, high_mag |-> d.high_mag,
                      threshold |-> d.threshold, peak_amp |-> d.peak_amp,
                      twist |-> d.twist]
           event  == [digit |-> last_digit, start |-> digit_start,
                      duration |-> i - digit_start, info |-> info]
       IN  /\ dtmf_map' = sweep_dtmf_map_literal
           /\ sweep_log' = Append(sweep_log, d @@ [i |-> i, params |-> params])
           /\ IF d.digit # None
              THEN IF d.digit # last_digit
                   THEN /\ detected_digits' = IF last_digit # None
                                              THEN Append(detected_digits, event)
                                              ELSE detected_digits
                        /\ digit_start' = i
                        /\ last_digit' = d.digit
                        /\ digit_info' = info
                   ELSE UNCHANGED <<detected_digits, digit_start, last_digit, digit_info>>
              ELSE /\ detected_digits' = IF last_digit # None
                                         THEN Append(detected_digits, event)
                                         ELSE detected_digits
                   /\ last_digit' = None
                   /\ UNCHANGED <<digit_start, digit_info>>
  /\ i' = i + hop_samples(param_sets[param_idx])
  /\ UNCHANGED <<tool_vars, prog, pc, data_len, data, param_idx, report_vars>>

\* one iteration of: for i in range(0, len(data) - window_samples, hop_samples)
SweepWindow ==
  /\ prog = "sweep" /\ pc = "sweep_loop"
  /\ i < data_len - window_samples(param_sets[param_idx])
  /\ \E k \in WindowKinds :
       LET params == param_sets[param_idx]
           d      == SweepDecode(k, params, sweep_dtmf_map_literal)
           info   == [low_freq |-> d.low_freq, high_freq |-> d.high_freq,
                      low_mag |-> d.low_mag, high_mag |-> d.high_mag,
                      threshold |-> d.threshold, peak_amp |-> d.peak_amp,
                      twist |-> d.twist]
           event  == [digit |-> last_digit, start |-> digit_start,
                      duration |-> i - digit_start, info |-> digit_info]
       IN  /\ dtmf_map' = sweep_dtmf_map_literal
           /\ sweep_log' = Append(sweep_log, d @@ [i |-> i, params |-> params])
           /\ IF d.digit # None
              THEN IF d.digit # last_digit
                   THEN /\ detected_digits' = IF last_digit # None
                                              THEN Append(detected_digits, event)
                                              ELSE detected_digits
                        /\ digit_start' = i
                        /\ last_digit' = d.digit
                        /\ digit_info' = info
                   ELSE UNCHANGED <<detected_digits, digit_start, last_digit, digit_info>>
              ELSE /\ detected_digits' = IF last_digit # None
                                         THEN Append(detected_digits, event)
                                         ELSE detected_digits
                   /\ last_digit' = None
                   /\ UNCHANGED <<digit_start, digit_info>>
  /\ i' = i + hop_samples(param_sets[param_idx])
  /\ UNCHANGED <<tool_vars, prog, pc, data_len, data, param_idx, report_vars>>

SweepFinish_StayOnSet ==
  /\ prog = "sweep" /\ pc = "sweep_loop"
  /\ ~(i < data_len - window_samples(param_sets[param_idx]))
  /\ detected_digits' =
       IF last_digit # None
       THEN Append(detected_digits,
                   [digit |-> last_digit, start |-> digit_start,
                    duration |-> data_len - digit_start, info |-> digit_info])
       ELSE detected_digits
  /\ pc' = "params"
  /\ UNCHANGED <<tool_vars, prog, data_len, data, i, param_idx, last_digit, digit_start,
                 digit_info, dtmf_map, sweep_log, report_vars>>

SweepFinish_NoClose ==
  /\ prog = "sweep" /\ pc = "sweep_loop"
  /\ ~(i < data_len - window_samples(param_sets[param_idx]))
  /\ param_idx' = param_idx + 1
  /\ pc' = "params"
  /\ UNCHANGED <<tool_vars, prog, data_len, data, i, detected_digits, last_digit, digit_start,
                 digit_info, dtmf_map, sweep_log, report_vars>>

\* after the window loop: close the open event with the buffer's end, report,
\* and go on to the next parameter set
SweepFinish ==
  /\ prog = "sweep" /\ pc = "sweep_loop"
  /\ ~(i < data_len - window_samples(param_sets[param_idx]))
  /\ detected_digits' =
       IF last_digit # None
       THEN Append(detected_digits,
                   [digit |-> last_digit, start |-> digit_start,
                    duration |-> data_len - digit_start, info |-> digit_info])
       ELSE detected_digits
  /\ param_idx' = param_idx + 1
  /\ pc' = "params"
  /\ UNCHANGED <<tool_vars, prog, data_len, data, i, last_digit, digit_start, digit_info, dtmf_map,
                 sweep_log, report_vars>>

\* param_sets is exhausted
SweepDone ==
  /\ prog = "sweep" /\ pc = "params"
  /\ param_idx > Len(param_sets)
  /\ pc' = "done"
  /\ UNCHANGED <<tool_vars, prog, data_len, data, i, sweep_vars, report_vars>>

\* ''.join([d[0] for d in detected_digits]) if detected_digits else "(none)"
sequence == IF detected_digits # <<>> THEN JoinDigits(detected_digits) ELSE <<"(none)">>

SweepNext ==
  \/ SweepStart
  \/ SweepWindow
  \/ SweepFinish
  \/ SweepDone

(***************************************************************************)
(* The specification: one of the two scripts runs on one buffer.           *)
(***************************************************************************)
Init ==
  /\ prog \in {"report", "sweep"}
  /\ pc = IF prog = "report" THEN "windows" ELSE "params"
  /\ \/ /\ data = <<>>
        /\ data_len \in IF prog = "report" THEN ReportDataLens ELSE SweepDataLens
     \/ /\ prog = "report"
        /\ data \in BurstBuffers
        /\ data_len = Len(data) * block_n
  /\ i = 0
  /\ windows = <<>>
  /\ active_windows = <<>>
  /\ noise_windows = <<>>
  /\ in_region = FALSE
  /\ region_start = None
  /\ tone_regions = <<>>
  /\ w_idx = 1
  /\ representative_windows = <<>>
  /\ window_table = <<>>
  /\ tone_region_analysis = <<>>
  /\ noise_floor_g = 0
  /\ abs_goertzel_threshold = 0
  /\ gated_detections = <<>>
  /\ param_idx = 1
  /\ detected_digits = <<>>
  /\ last_digit = None
  /\ digit_start = None
  /\ digit_info = <<>>
  /\ dtmf_map = Unbound
  /\ sweep_log = <<>>
  /\ GoertzelIdle
  /\ DeployIdle
  /\ SerialIdle

Next == ReportNext \/ SweepNext

Spec == Init /\ [][Next]_vars

(***************************************************************************)
(* The Goertzel filter on a window of samples.  Both scripts define the    *)
(* same function.  It is followed here in exact arithmetic on the windows  *)
(* whose coefficient 2 cos(2 pi k / n) is a whole number; the scripts      *)
(* compute the same in floating point.                                     *)
(***************************************************************************)
\* neither script runs
AudioIdle ==
  /\ prog = "none" /\ pc = "none"
  /\ data_len = 0 /\ data = <<>> /\ i = 0
  /\ windows = <<>> /\ active_windows = <<>> /\ noise_windows = <<>>
  /\ in_region = FALSE /\ region_start = None /\ tone_regions = <<>>
  /\ w_idx = 1
  /\ representative_windows = <<>> /\ window_table = <<>>
  /\ tone_region_analysis = <<>>
  /\ noise_floor_g = 0 /\ abs_goertzel_threshold = 0
  /\ gated_detections = <<>>
  /\ param_idx = 1
  /\ detected_digits = <<>> /\ last_digit = None /\ digit_start = None
  /\ digit_info = <<>> /\ dtmf_map = Unbound /\ sweep_log = <<>>

audio_vars == <<prog, pc, data_len, data, i, report_vars, sweep_vars>>

\* the largest sample value of a drawn window
MaxSample == 2

\* the sample values of a drawn window
SampleValues == {-MaxSample, 0, 1, MaxSample}

\* the window lengths drawn: at 11025 Hz every DTMF frequency has bin 0 or 1
\* of a window of 4 or 6 samples
GoertzelLens == {4, 6}

\* a bin computed from the frequency in whole kHz
GoertzelBin_FreqInKHz(n, freq, sample_rate) ==
  (2 * n * (freq \div 1000) + sample_rate) \div (2 * sample_rate)

\* k = int(0.5 + (n * target_freq) / sample_rate)
GoertzelBin(n, freq, sample_rate) ==
  (2 * n * freq + sample_rate) \div (2 * sample_rate)

\* coeff = 2.0 * np.cos((2.0 * np.pi * k) / n), where it is a whole number
GoertzelCoeff(k, n) ==
  CASE k = 0     -> 2
    [] 6 * k = n -> 1
    [] 4 * k = n -> 0
    [] 3 * k = n -> -1
    [] 2 * k = n -> -2

\* a recurrence that adds a constant to every sample
GoertzelState_Biased(s, coeff, j) ==
  LET Q[m \in 0..j] ==
        IF m = 0 THEN <<0, 0>>
        ELSE <<coeff * Q[m - 1][1] - Q[m - 1][2] + s[m] + 1, Q[m - 1][1]>>
  IN  Q[j]

\* <<q1, q2>> after the loop has taken the first j samples:
\* q0 = coeff * q1 - q2 + sample; q2 = q1; q1 = q0
GoertzelState(s, coeff, j) ==
  LET Q[m \in 0..j] ==
        IF m = 0 THEN <<0, 0>>
        ELSE <<coeff * Q[m - 1][1] - Q[m - 1][2] + s[m], Q[m - 1][1]>>
  IN  Q[j]

\* goertzel(samples, target_freq, sample_rate), as four times the square of
\* the value it returns: with real = q1 - q2 * cos(omega) and
\* imag = q2 * sin(omega), (2 real)^2 = (2 q1 - coeff q2)^2 and
\* (2 imag)^2 = q2^2 (4 - coeff^2).  The returned value is the non-negative
\* square root of a quarter of this when this is not negative, and nan
\* otherwise.
goertzel(s, freq, sample_rate) ==
  LET n     == Len(s)
      coeff == GoertzelCoeff(GoertzelBin(n, freq, sample_rate), n)
      q     == GoertzelState(s, coeff, n)
      real2 == 2 * q[1] - coeff * q[2]
      imag2_sq == q[2] * q[2] * (4 - coeff * coeff)
  IN  real2 * real2 + imag2_sq

\* the function is called on the window
GoertzelCall ==
  /\ magnitude = <<>>
  /\ magnitude' = <<goertzel(samples, target_freq, sweep_rate)>>
  /\ UNCHANGED <<samples, target_freq, half_magnitude, audio_vars, deploy_vars,
                 serial_vars>>

\* every sample of the window is multiplied by 2 for a second call
DoubleSamples ==
  /\ magnitude # <<>> /\ half_magnitude = <<>>
  /\ samples' = [j \in DOMAIN samples |-> 2 * samples[j]]
  /\ half_magnitude' = magnitude
  /\ magnitude' = <<>>
  /\ UNCHANGED <<target_freq, audio_vars, deploy_vars, serial_vars>>

GoertzelInit ==
  /\ AudioIdle
  /\ DeployIdle
  /\ SerialIdle
  /\ \E n \in GoertzelLens : samples \in [1..n -> SampleValues]
  /\ target_freq \in {DTMF_LOW[j] : j \in 1..4} \cup {DTMF_HIGH[j] : j \in 1..4}
  /\ magnitude = <<>>
  /\ half_magnitude = <<>>

GoertzelNext == GoertzelCall \/ DoubleSamples

GoertzelSpec == GoertzelInit /\ [][GoertzelNext]_vars

(***************************************************************************)
(* The deployment script: upload_via_unraid.                               *)
(***************************************************************************)
\* the largest return code a command ends with
MaxReturnCode == 2

\* run_command(cmd, check) raises: subprocess.run itself raised, or check is
\* set and the command's return code is not 0
RunCommandRaises(cmd, check) ==
  returncode[cmd] = -1 \/ (check /\ returncode[cmd] # 0)

\* sys.exit(1)
SysExit ==
  /\ step' = "exited"
  /\ exit_status' = "exit 1"

\* if not os.path.exists(firmware_path): print_error(...); sys.exit(1)
CheckFirmware ==
  /\ step = "check"
  /\ IF ~firmware_exists
     THEN /\ printed' = Append(printed, "Firmware not found")
          /\ SysExit
     ELSE /\ step' = "copy"
          /\ UNCHANGED <<printed, exit_status>>
  /\ UNCHANGED <<firmware_exists, returncode, calls, audio_vars, goertzel_vars,
                 serial_vars>>

\* step 1: scp of the firmware to the server; a failure exits
CopyFirmware ==
  /\ step = "copy"
  /\ calls' = Append(calls, "scp")
  /\ IF RunCommandRaises("scp", TRUE)
     THEN /\ printed' = Append(printed, "SCP failed")
          /\ SysExit
     ELSE /\ printed' = Append(printed, "Firmware copied to Unraid")
          /\ step' = "prepare"
          /\ UNCHANGED exit_status
  /\ UNCHANGED <<firmware_exists, returncode, audio_vars, goertzel_vars, serial_vars>>

\* a step 2 whose failure ends the deployment
PrepareDevice_AbortsOnFailure ==
  /\ step = "prepare"
  /\ calls' = Append(calls, "prepareota")
  /\ IF RunCommandRaises("prepareota", FALSE) \/ returncode["prepareota"] # 0
     THEN /\ printed' = Append(printed, "HTTP prepare failed")
          /\ SysExit
     ELSE /\ printed' = Append(printed, "Device prepared for OTA")
          /\ step' = "wait"
          /\ UNCHANGED exit_status
  /\ UNCHANGED <<firmware_exists, returncode, audio_vars, goertzel_vars, serial_vars>>

\* step 2: the /prepareota request, run with check=False; a return code other
\* than 0 is raised and caught with the other exceptions, and only warned of
PrepareDevice ==
  /\ step = "prepare"
  /\ calls' = Append(calls, "prepareota")
  /\ printed' = Append(printed,
                  IF RunCommandRaises("prepareota", FALSE) \/ returncode["prepareota"] # 0
                  THEN "HTTP prepare failed"
                  ELSE "Device prepared for OTA")
  /\ step' = "wait"
  /\ UNCHANGED <<firmware_exists, returncode, exit_status, audio_vars, goertzel_vars,
                 serial_vars>>

\* step 3: time.sleep(3)
WaitForDevice ==
  /\ step = "wait"
  /\ calls' = Append(calls, "sleep")
  /\ printed' = Append(printed, "Ready")
  /\ step' = "upload"
  /\ UNCHANGED <<firmware_exists, returncode, exit_status, audio_vars, goertzel_vars,
                 serial_vars>>

\* step 4: the /update request; a failure exits, a success returns
OtaUpload ==
  /\ step = "upload"
  /\ calls' = Append(calls, "update")
  /\ IF RunCommandRaises("update", TRUE)
     THEN /\ printed' = Append(printed, "OTA UPDATE FAILED")
          /\ SysExit
     ELSE /\ printed' = Append(printed, "OTA UPDATE SUCCESSFUL")
          /\ step' = "returned"
          /\ exit_status' = "returned"
  /\ UNCHANGED <<firmware_exists, returncode, audio_vars, goertzel_vars, serial_vars>>

DeployInit ==
  /\ AudioIdle
  /\ GoertzelIdle
  /\ SerialIdle
  /\ firmware_exists \in BOOLEAN
  /\ returncode \in [Commands -> (-1)..MaxReturnCode]
  /\ step = "check"
  /\ calls = <<>>
  /\ printed = <<>>
  /\ exit_status = "running"

DeployNext ==
  \/ CheckFirmware
  \/ CopyFirmware
  \/ PrepareDevice
  \/ WaitForDevice
  \/ OtaUpload

DeploySpec == DeployInit /\ [][DeployNext]_vars

(***************************************************************************)
(* The serial tester: the reader thread (read_output, parse_output) and    *)
(* the main thread (interactive_mode, run_interactive_test) of one         *)
(* interactive session.  A step is one statement that reads or writes the  *)
(* state the threads share; the threads interleave between steps.          *)
(***************************************************************************)
\* the most lines the device sends in a session
MaxLines == 2

\* the lines the device sends, and the words parse_output finds in each
LineWords ==
  [l \in {"OFF HOOK", "Playing dialtone", "sequence: 6969", "Failed to play",
          "Warning: low heap"} |->
     CASE l = "OFF HOOK"          -> {"OFF HOOK"}
       [] l = "Playing dialtone"  -> {"Playing", "dialtone"}
       [] l = "sequence: 6969"    -> {"sequence"}
       [] l = "Failed to play"    -> {"Failed"}
       [] l = "Warning: low heap" -> {"Warning"}]

\* word in text
Contains(line, word) == word \in LineWords[line]

\* all sequences over S of length at most n
SeqsUpTo(S, n) == UNION {[1..m -> S] : m \in 0..n}

\* read_output: while self.running, with a line waiting: readline, decode,
\* and call parse_output(text)
ReadLine ==
  /\ reader_pc = "loop" /\ running
  /\ pending # <<>>
  /\ text' = Head(pending)
  /\ pending' = Tail(pending)
  /\ reader_pc' = "acquire"
  /\ UNCHANGED <<running, output_lock, last_state, main_pc, audio_vars,
                 goertzel_vars, deploy_vars>>

\* read_output: self.running is False, the loop ends
ReaderStops ==
  /\ reader_pc = "loop" /\ ~running
  /\ reader_pc' = "done"
  /\ UNCHANGED <<running, output_lock, pending, text, last_state, main_pc,
                 audio_vars, goertzel_vars, deploy_vars>>

\* parse_output: with self.output_lock
AcquireLock ==
  /\ reader_pc = "acquire"
  /\ output_lock = "free"
  /\ output_lock' = "reader"
  /\ reader_pc' = "hook"
  /\ UNCHANGED <<running, pending, text, last_state, main_pc, audio_vars,
                 goertzel_vars, deploy_vars>>

\* parse_output: track hook state
ParseHook ==
  /\ reader_pc = "hook"
  /\ last_state' = IF Contains(text, "OFF HOOK")
                   THEN [last_state EXCEPT !.hook = "OFF_HOOK"]
                   ELSE IF Contains(text, "ON HOOK")
                   THEN [last_state EXCEPT !.hook = "ON_HOOK"]
                   ELSE last_state
  /\ reader_pc' = "audio"
  /\ UNCHANGED <<running, output_lock, pending, text, main_pc, audio_vars,
                 goertzel_vars, deploy_vars>>

\* parse_output: track audio
ParseAudio ==
  /\ reader_pc = "audio"
  /\ LET played == IF Contains(text, "Playing") \/ Contains(text, "dialtone")
                   THEN [last_state EXCEPT !.audio_playing = TRUE]
                   ELSE last_state
     IN  last_state' = IF Contains(text, "Stopped") \/ Contains(text, "stopAudio")
                       THEN [played EXCEPT !.audio_playing = FALSE]
                       ELSE played
  /\ reader_pc' = "sequence"
  /\ UNCHANGED <<running, output_lock, pending, text, main_pc, audio_vars,
                 goertzel_vars, deploy_vars>>

\* parse_output: track sequences
ParseSequence ==
  /\ reader_pc = "sequence"
  /\ last_state' = IF Contains(text, "sequence")
                   THEN [last_state EXCEPT !.last_sequence = "6969"]
                   ELSE last_state
  /\ reader_pc' = "errors"
  /\ UNCHANGED <<running, output_lock, pending, text, main_pc, audio_vars,
                 goertzel_vars, deploy_vars>>

\* parse_output: track errors ('Error' in text.upper() never holds)
ParseErrors ==
  /\ reader_pc = "errors"
  /\ last_state' = IF Contains(text, "Failed")
                   THEN [last_state EXCEPT !.errors = Append(@, text)]
                   ELSE last_state
  /\ reader_pc' = "warnings"
  /\ UNCHANGED <<running, output_lock, pending, text, main_pc, audio_vars,
                 goertzel_vars, deploy_vars>>

\* parse_output: track warnings, and leave the with block
ParseWarnings ==
  /\ reader_pc = "warnings"
  /\ last_state' = IF Contains(text, "Warning")
                   THEN [last_state EXCEPT !.warnings = Append(@, text)]
                   ELSE last_state
  /\ reader_pc' = "release"
  /\ UNCHANGED <<running, output_lock, pending, text, main_pc, audio_vars,
                 goertzel_vars, deploy_vars>>

ReleaseLock ==
  /\ reader_pc = "release"
  /\ output_lock' = "free"
  /\ reader_pc' = "loop"
  /\ UNCHANGED <<running, pending, text, last_state, main_pc, audio_vars,
                 goertzel_vars, deploy_vars>>

\* the questions of run_interactive_test whose answer 'n' is recorded
Questions == <<"No dial tone heard", "No audio for 6969", "No audio for 888">>

\* the session is followed while the list of errors is shorter than this
MaxErrors == 1

\* interactive_mode: the command 'test' starts run_interactive_test, 'quit'
\* leaves the loop for disconnect()
Command ==
  /\ main_pc = "command"
  /\ \E cmd \in {"test", "quit"} :
       IF cmd = "test"
       THEN /\ Len(last_state.errors) < MaxErrors
            /\ main_pc' = "confirm 1"
            /\ UNCHANGED running
       ELSE /\ main_pc' = "done"
            /\ running' = FALSE
  /\ UNCHANGED <<output_lock, pending, text, last_state, reader_pc, audio_vars,
                 goertzel_vars, deploy_vars>>

\* run_interactive_test: response = self.wait_and_confirm(...)
WaitAndConfirm ==
  /\ \E q \in DOMAIN Questions :
       /\ main_pc = "confirm " \o ToString(q)
       /\ \E response \in {"y", "n", "s"} :
            main_pc' = IF response = "n" THEN "append " \o ToString(q)
                       ELSE IF q < Len(Questions) THEN "confirm " \o ToString(q + 1)
                       ELSE "command"
  /\ UNCHANGED <<running, output_lock, pending, text, last_state, reader_pc,
                 audio_vars, goertzel_vars, deploy_vars>>

\* run_interactive_test: self.last_state['errors'].append((now, "USER: ..."))
AppendUserError ==
  /\ \E q \in DOMAIN Questions :
       /\ main_pc = "append " \o ToString(q)
       /\ last_state' = [last_state EXCEPT !.errors = Append(@, "USER: " \o Questions[q])]
       /\ main_pc' = IF q < Len(Questions) THEN "confirm " \o ToString(q + 1)
                     ELSE "command"
  /\ UNCHANGED <<running, output_lock, pending, text, reader_pc, audio_vars,
                 goertzel_vars, deploy_vars>>

\* interactive_mode has set self.running and started the reader thread
SerialInit ==
  /\ AudioIdle
  /\ GoertzelIdle
  /\ DeployIdle
  /\ running = TRUE
  /\ output_lock = "free"
  /\ pending \in SeqsUpTo(DOMAIN LineWords, MaxLines)
  /\ text = ""
  /\ last_state = InitialLastState
  /\ reader_pc = "loop"
  /\ main_pc = "command"

ReaderNext ==
  \/ ReadLine
  \/ ReaderStops
  \/ AcquireLock
  \/ ParseHook
  \/ ParseAudio
  \/ ParseSequence
  \/ ParseErrors
  \/ ParseWarnings
  \/ ReleaseLock

MainNext ==
  \/ Command
  \/ WaitAndConfirm
  \/ AppendUserError

SerialNext == ReaderNext \/ MainNext

SerialSpec == SerialInit /\ [][SerialNext]_vars

(***************************************************************************)
(* Vocabulary of the properties.                                           *)
(***************************************************************************)
BestLow(w) == MaxOf(w.goertzel_low)

BestHigh(w) == MaxOf(w.goertzel_high)

\* the region scan has consumed all windows and closed the stream
RegionsScanned ==
  prog = "report" /\ pc \in {"representative", "heatmap", "IndexError", "table", "analysis", "gated", "done"}

\* the windows that vote for the k-th gated detection
Voters(k) ==
  RegionWins(windows, gated_detections[k].start_time, gated_detections[k].end_time)

\* best_low and best_high of w are both at or above the absolute threshold
AboveAbsThreshold(w) ==
  /\ 100 * BestLow(w) >= abs_goertzel_threshold
  /\ 100 * BestHigh(w) >= abs_goertzel_threshold

\* max(best_low, best_high) / min(best_low, best_high) < limit
TwistBelow(w, limit) ==
  Max2(BestLow(w), BestHigh(w)) < limit * Min2(BestLow(w), BestHigh(w))

(***************************************************************************)
(* C1.  In the energy-gated (region consensus) path a digit is emitted     *)
(* only from windows whose best low and best high Goertzel magnitudes are  *)
(* both at or above the absolute threshold (10 x noise floor): a region    *)
(* whose windows are all below that threshold emits no digit.  Stated in   *)
(* its weakest reading: every gated detection has at least one voting      *)
(* window at or above the threshold.  The report computes the threshold    *)
(* and never compares anything with it, so this fails.                     *)
(***************************************************************************)
C1_DetectionNeedsAbsThreshold ==
  (prog = "report" /\ pc = "done") =>
    \A k \in DOMAIN gated_detections :
      \E j \in DOMAIN Voters(k) : AboveAbsThreshold(Voters(k)[j])

(***************************************************************************)
(* C2.  The decode of a window never depends on the window's peak sample   *)
(* amplitude: two windows with the same eight filter magnitudes and the    *)
(* same gate state decode to the same digit-or-none, whatever their peaks. *)
(* The sweep's threshold is peak_amp * threshold_pct / 100, so this fails  *)
(* there.                                                                  *)
(***************************************************************************)
C2_DecodeIndependentOfPeak ==
  /\ \A a, b \in DOMAIN sweep_log :
       ( /\ sweep_log[a].window.goertzel_low = sweep_log[b].window.goertzel_low
         /\ sweep_log[a].window.goertzel_high = sweep_log[b].window.goertzel_high
         /\ (RmsDb(sweep_log[a].window.rms) >= energy_threshold_db)
              = (RmsDb(sweep_log[b].window.rms) >= energy_threshold_db) )
       => sweep_log[a].digit = sweep_log[b].digit
  /\ \A a, b \in DOMAIN window_table :
       ( /\ window_table[a].g_low_mag = window_table[b].g_low_mag
         /\ window_table[a].g_high_mag = window_table[b].g_high_mag
         /\ window_table[a].g_low_freq = window_table[b].g_low_freq
         /\ window_table[a].g_high_freq = window_table[b].g_high_freq )
       => window_table[a].g_digit = window_table[b].g_digit

(***************************************************************************)
(* C3.  No digit is decoded for a window the energy gate classifies as     *)
(* noise: on every decode path, each window that contributes a digit has   *)
(* RMS at or above energy_threshold_db (-20 dBFS).  The report filters its *)
(* voters and table rows by the gate; the sweep has no gate, so this fails *)
(* there.                                                                  *)
(***************************************************************************)
C3_NoDigitFromNoiseWindow ==
  /\ \A a \in DOMAIN sweep_log :
       sweep_log[a].digit # None
         => RmsDb(sweep_log[a].window.rms) >= energy_threshold_db
  /\ \A a \in DOMAIN window_table : window_table[a].rms_db >= energy_threshold_db
  /\ (prog = "report" /\ pc = "done") =>
       \A k \in DOMAIN gated_detections :
         \A j \in DOMAIN Voters(k) : IsActive(Voters(k)[j])

(***************************************************************************)
(* C4.  A digit is emitted only when the twist ratio                       *)
(* max(best_low, best_high) / min(best_low, best_high) is strictly below   *)
(* the twist limit: on every decode path no window whose twist ratio is at *)
(* or above the limit contributes a digit.  The sweep checks the ratio;    *)
(* the region consensus lets every active window vote whatever its twist   *)
(* (the report has no twist limit: the most lenient one of the repository, *)
(* 4.0, is used here), so this fails there.                                *)
(***************************************************************************)
C4_NoDigitAtOrAboveTwistLimit ==
  /\ \A a \in DOMAIN sweep_log :
       sweep_log[a].digit # None
         => TwistBelow(sweep_log[a].window, sweep_log[a].params.twist_ratio)
  /\ (prog = "report" /\ pc = "done") =>
       \A k \in DOMAIN gated_detections :
         \A j \in DOMAIN Voters(k) : TwistBelow(Voters(k)[j], detect_twist_ratio)

(***************************************************************************)
(* The keypad of section 6 of the specification, row by row.               *)
(***************************************************************************)
KeypadLow == <<697, 770, 852, 941>>

KeypadHigh == <<1209, 1336, 1477, 1633>>

KeypadSymbols == << <<"1", "2", "3", "A">>,
                    <<"4", "5", "6", "B">>,
                    <<"7", "8", "9", "C">>,
                    <<"*", "0", "#", "D">> >>

IndexIn(s, v) == CHOOSE j \in DOMAIN s : s[j] = v

Keypad(l, h) == KeypadSymbols[IndexIn(KeypadLow, l)][IndexIn(KeypadHigh, h)]

\* f is a frequency of freqs whose magnitude is the largest of mags
IsArgmaxFreq(freqs, mags, f) ==
  \E j \in DOMAIN freqs : freqs[j] = f /\ \A l \in DOMAIN mags : mags[l] <= mags[j]

\* m is the keypad: total on the 16 pairs, onto 16 distinct symbols
IsKeypadTable(m) ==
  /\ DOMAIN m = {<<KeypadLow[r], KeypadHigh[c]>> : r \in 1..4, c \in 1..4}
  /\ \A r \in 1..4, c \in 1..4 : m[<<KeypadLow[r], KeypadHigh[c]>>] = KeypadSymbols[r][c]
  /\ Cardinality({m[p] : p \in DOMAIN m}) = 16

\* the window the table row was built from
WindowAt(t) == CHOOSE w \in {windows[j] : j \in DOMAIN windows} : w.time = t

(***************************************************************************)
(* C5.  Whenever a decode produces a digit for a window whose argmax       *)
(* low-band frequency is L and argmax high-band frequency is H, the digit  *)
(* is the keypad entry for (L, H); L and H always come from the two fixed  *)
(* frequency sets, so the lookup is total: a window that passes the        *)
(* sweep's checks never decodes to none, and a row of the report's table   *)
(* never holds '?'.                                                        *)
(***************************************************************************)
C5_DigitIsKeypadEntry ==
  /\ \A a \in DOMAIN sweep_log :
       LET e == sweep_log[a] IN
         /\ IsArgmaxFreq(KeypadLow, e.window.goertzel_low, e.low_freq)
         /\ IsArgmaxFreq(KeypadHigh, e.window.goertzel_high, e.high_freq)
         /\ e.digit # None => e.digit = Keypad(e.low_freq, e.high_freq)
         /\ ( /\ 100 * e.low_mag > e.threshold
              /\ 100 * e.high_mag > e.threshold
              /\ TwistBelow(e.window, e.params.twist_ratio) ) => e.digit # None
  /\ \A a \in DOMAIN window_table :
       LET row == window_table[a] IN
         /\ IsArgmaxFreq(KeypadLow, WindowAt(row.time).goertzel_low, row.g_low_freq)
         /\ IsArgmaxFreq(KeypadHigh, WindowAt(row.time).goertzel_high, row.g_high_freq)
         /\ row.g_digit = Keypad(row.g_low_freq, row.g_high_freq)

\* the sweep has decoded two different keys in one run
C5_Witness ==
  /\ prog = "sweep"
  /\ \E a, b \in DOMAIN sweep_log :
       /\ sweep_log[a].digit = "2" /\ sweep_log[a].low_freq = 697
       /\ sweep_log[a].high_freq = 1336
       /\ sweep_log[b].digit = "4"

(***************************************************************************)
(* C6.  Every copy of the DTMF mapping table in the source (the report's   *)
(* DTMF_MAP, the one local to detect_dtmf_digit, the one the sweep loop    *)
(* rebuilds for every window) is a total bijection from the 16 (low, high) *)
(* pairs onto 16 distinct symbols, identical to the table of section 6,    *)
(* and stays so during a run.                                              *)
(***************************************************************************)
C6_EveryTableIsTheKeypad ==
  /\ IsKeypadTable(DTMF_MAP)
  /\ IsKeypadTable(detect_dtmf_map)
  /\ dtmf_map # Unbound => IsKeypadTable(dtmf_map)

\* the sweep has rebuilt its table in a second run
C6_Witness ==
  prog = "sweep" /\ param_idx > 1 /\ Len(sweep_log) >= 2 /\ dtmf_map # Unbound

(***************************************************************************)
(* Maximal runs of consecutive active windows, defined on the window       *)
(* stream alone (not by the scan).                                         *)
(***************************************************************************)
ActiveAt(j) == IsActive(windows[j])

\* the indices at which a maximal run starts
RunStarts ==
  {a \in DOMAIN windows : ActiveAt(a) /\ (a = 1 \/ ~ActiveAt(a - 1))}

\* the index of the last window of the run that starts at a
RunEnd(a) ==
  CHOOSE b \in a..Len(windows) :
    /\ \A j \in a..b : ActiveAt(j)
    /\ b = Len(windows) \/ ~ActiveAt(b + 1)

\* the position of the run that starts at a among the runs, in stream order
RunIndex(a) == 1 + Cardinality({a2 \in RunStarts : a2 < a})

\* the run that starts at a reaches the end of the stream
RunIsOpenAtEnd(a) == RunEnd(a) = Len(windows)

(***************************************************************************)
(* C7.  After the region scan has consumed all windows, tone_regions holds *)
(* exactly one region per maximal run of consecutive active windows, in    *)
(* stream order: its start is the time of the run's first window, its end  *)
(* the time of the first inactive window after the run, or the last        *)
(* window's time if the run reaches the end of the stream.                 *)
(***************************************************************************)
C7_OneRegionPerMaximalRun ==
  RegionsScanned =>
    /\ Len(tone_regions) = Cardinality(RunStarts)
    /\ \A a \in RunStarts :
         tone_regions[RunIndex(a)] =
           << windows[a].time,
              IF RunIsOpenAtEnd(a) THEN windows[Len(windows)].time
              ELSE windows[RunEnd(a) + 1].time >>

\* two runs, the second one still open when the stream ends
C7_Witness ==
  /\ RegionsScanned
  /\ Len(windows) = 4
  /\ Len(tone_regions) = 2
  /\ ActiveAt(1) /\ ~ActiveAt(2) /\ ActiveAt(3) /\ ActiveAt(4)

(***************************************************************************)
(* C8 as stated.  The consensus digit of a tone region is the per-window   *)
(* decoded digit that occurs most often among the region's active member   *)
(* windows, ties going to the digit that occurs earliest (a vote over      *)
(* digits, not over the low and high frequencies separately).              *)
(***************************************************************************)
\* v occurs in s at least as often as every other value, and earlier than
\* every value that occurs as often
IsFirstMostCommon(s, v) ==
  /\ \E j \in DOMAIN s : s[j] = v
  /\ \A l \in DOMAIN s :
       \/ Count(s, s[l]) < Count(s, v)
       \/ /\ Count(s, s[l]) = Count(s, v)
          /\ \E j \in 1..l : s[j] = v

\* the table rows of the member windows of the run that starts at a
MemberRows(a) ==
  [j \in 1..(RunEnd(a) - a + 1) |->
     CHOOSE row \in {window_table[r] : r \in DOMAIN window_table} :
       row.time = windows[a + j - 1].time]

RegionsAnalysed == prog = "report" /\ pc \in {"gated", "done"}

C8_ConsensusIsDigitMajority ==
  RegionsAnalysed =>
    \A a \in RunStarts :
      IsFirstMostCommon([j \in DOMAIN MemberRows(a) |-> MemberRows(a)[j].g_digit],
                        tone_region_analysis[RunIndex(a)].g_digit)

(***************************************************************************)
(* C8, amended.  The consensus digit of a tone region is the keypad entry  *)
(* for (L, H), where L is the argmax low-band frequency that occurs most   *)
(* often among the region's active member windows and H the argmax         *)
(* high-band frequency that occurs most often among them: two separate     *)
(* votes, each with ties going to the value that occurs earliest in the    *)
(* region.                                                                 *)
(***************************************************************************)
C8_ConsensusIsPerBandMajority ==
  RegionsAnalysed =>
    /\ Len(tone_region_analysis) = Cardinality(RunStarts)
    /\ \A a \in RunStarts :
         LET e == tone_region_analysis[RunIndex(a)] IN
           /\ IsFirstMostCommon([j \in DOMAIN MemberRows(a) |-> MemberRows(a)[j].g_low_freq],
                                e.g_low_freq)
           /\ IsFirstMostCommon([j \in DOMAIN MemberRows(a) |-> MemberRows(a)[j].g_high_freq],
                                e.g_high_freq)
           /\ e.g_digit = Keypad(e.g_low_freq, e.g_high_freq)

\* a region of keys 2, 1, 4: the bands vote 697 and 1209, key 1, while no
\* digit has a majority and the earliest is 2
C8_Witness ==
  /\ RegionsAnalysed
  /\ \E a \in RunStarts :
       /\ RunEnd(a) = a + 2
       /\ MemberRows(a)[1].g_digit = "2"
       /\ MemberRows(a)[2].g_digit = "1"
       /\ MemberRows(a)[3].g_digit = "4"
       /\ tone_region_analysis[RunIndex(a)].g_digit = "1"

(***************************************************************************)
(* C9.  For every closed tone region there is exactly one representative  *)
(* window, it is a member window of that region, and its RMS energy is at  *)
(* least that of every other member window.                                *)
(***************************************************************************)
RepresentativesPicked ==
  prog = "report" /\ pc \in {"heatmap", "IndexError", "table", "analysis", "gated", "done"}

C9_RepresentativeIsMaxRmsMember ==
  RepresentativesPicked =>
    /\ Len(representative_windows) = Len(tone_regions)
    /\ Len(representative_windows) = Cardinality(RunStarts)
    /\ \A a \in RunStarts :
         /\ \E j \in a..RunEnd(a) : windows[j] = representative_windows[RunIndex(a)]
         /\ \A j \in a..RunEnd(a) :
              representative_windows[RunIndex(a)].rms >= windows[j].rms

\* a region closed by a noise window whose loudest member is not its first
C9_Witness ==
  /\ RepresentativesPicked
  /\ \E a \in RunStarts :
       /\ RunEnd(a) > a /\ ~RunIsOpenAtEnd(a)
       /\ windows[a].rms < windows[a + 1].rms
       /\ representative_windows[RunIndex(a)] = windows[a + 1]

(***************************************************************************)
(* C10 as stated.  Every tone region is a half-open interval [start, end)  *)
(* with start < end that contains the time of every one of its active      *)
(* member windows and the time of no inactive window, also when the region *)
(* is still open when the stream ends.                                     *)
(***************************************************************************)
\* the region of the run starting at a is [start, end), start < end, holding
\* its members' times and no inactive window's time
IsHalfOpenRegion(a) ==
  LET r == tone_regions[RunIndex(a)] IN
    /\ r[1] < r[2]
    /\ \A j \in a..RunEnd(a) : r[1] <= windows[j].time /\ windows[j].time < r[2]
    /\ \A j \in DOMAIN windows :
         ~ActiveAt(j) => ~(r[1] <= windows[j].time /\ windows[j].time < r[2])

C10_EveryRegionHalfOpen ==
  RegionsScanned => \A a \in RunStarts : IsHalfOpenRegion(a)

(***************************************************************************)
(* C10, amended.  Every tone region closed by an inactive window is a      *)
(* half-open interval [start, end) with start < end that contains the time *)
(* of every one of its active member windows and the time of no inactive   *)
(* window.  A region still open when the stream ends is closed at the time *)
(* of the last window, itself a member: it is the closed interval          *)
(* [start, end] with start <= end (start = end when the run is the last    *)
(* window alone), containing its members' times and no inactive window's.  *)
(***************************************************************************)
IsClosedRegionAtEnd(a) ==
  LET r == tone_regions[RunIndex(a)] IN
    /\ r[2] = windows[Len(windows)].time
    /\ r[1] <= r[2]
    /\ (r[1] = r[2]) = (a = Len(windows))
    /\ \A j \in a..RunEnd(a) : r[1] <= windows[j].time /\ windows[j].time <= r[2]
    /\ \A j \in DOMAIN windows :
         ~ActiveAt(j) => ~(r[1] <= windows[j].time /\ windows[j].time <= r[2])

C10_HalfOpenUnlessOpenAtEnd ==
  RegionsScanned =>
    \A a \in RunStarts :
      IF RunIsOpenAtEnd(a) THEN IsClosedRegionAtEnd(a) ELSE IsHalfOpenRegion(a)

\* a region of two windows closed by a noise window, and the last window alone
C10_Witness ==
  /\ RegionsScanned
  /\ Len(windows) = 4
  /\ ActiveAt(1) /\ ActiveAt(2) /\ ~ActiveAt(3) /\ ActiveAt(4)
  /\ tone_regions[2][1] = tone_regions[2][2]

(***************************************************************************)
(* Vocabulary of the sweep's events.  After SweepFinish sweep_log holds    *)
(* the windows of the run just completed and detected_digits its events.   *)
(***************************************************************************)
\* a run of the sweep over one parameter set is complete
SweepRunComplete == prog = "sweep" /\ pc \in {"params", "done"} /\ param_idx > 1

\* the first windows of the maximal runs of windows decoding to one digit
SweepRunStarts ==
  {a \in DOMAIN sweep_log :
     /\ sweep_log[a].digit # None
     /\ (a = 1 \/ sweep_log[a - 1].digit # sweep_log[a].digit)}

\* the index of the first window after the run that starts at a, or
\* Len(sweep_log) + 1 when the run reaches the last window
SweepRunEnd(a) ==
  CHOOSE b \in (a + 1)..(Len(sweep_log) + 1) :
    /\ \A c \in a..(b - 1) : sweep_log[c].digit = sweep_log[a].digit
    /\ (b <= Len(sweep_log) => sweep_log[b].digit # sweep_log[a].digit)

\* the position of the run that starts at a among the runs, in stream order
SweepRunIndex(a) == Cardinality({b \in SweepRunStarts : b <= a})

(***************************************************************************)
(* C11.  The window-debounce assembler of the sweep emits exactly one      *)
(* event per maximal run of consecutive windows that decode to the same    *)
(* digit (a run of one window included), in stream order; the event holds  *)
(* the run's digit, the offset of the run's first window as its start,     *)
(* and as its duration the offset of the first window after the run minus  *)
(* the start, or the buffer length minus the start when the run reaches    *)
(* the last window.  Windows that decode to no digit emit nothing.         *)
(***************************************************************************)
C11_OneEventPerDigitRun ==
  SweepRunComplete =>
    /\ Len(detected_digits) = Cardinality(SweepRunStarts)
    /\ \A a \in SweepRunStarts :
         LET e == detected_digits[SweepRunIndex(a)]
             b == SweepRunEnd(a)
         IN  /\ e.digit = sweep_log[a].digit
             /\ e.start = sweep_log[a].i
             /\ e.duration = (IF b <= Len(sweep_log) THEN sweep_log[b].i ELSE data_len)
                               - sweep_log[a].i

\* a run of two windows closed by a different digit, whose own run of one
\* window reaches the last window
C11_Witness ==
  /\ SweepRunComplete
  /\ Len(sweep_log) = 3
  /\ sweep_log[1].digit # None
  /\ sweep_log[2].digit = sweep_log[1].digit
  /\ sweep_log[3].digit \notin {None, sweep_log[1].digit}
  /\ Len(detected_digits) = 2
  /\ detected_digits[2].duration = data_len - sweep_log[3].i

(***************************************************************************)
(* Vocabulary of C12: the events of either path as <<start, duration>>     *)
(* with their digit, and the string reported for them.                     *)
(***************************************************************************)
\* the report has run to its end
ReportDone == prog = "report" /\ pc = "done"

\* starts strictly increase and no event begins before the previous one ends
OrderedAndDisjoint(starts, durations) ==
  \A k \in 1..(Len(starts) - 1) :
    /\ starts[k] < starts[k + 1]
    /\ starts[k] + durations[k] <= starts[k + 1]

\* str is the digits of events, one character each, in their order
IsConcatenationOf(str, events) ==
  /\ Len(str) = Len(events)
  /\ \A k \in DOMAIN events : str[k] = events[k].digit

SweepStarts == [k \in DOMAIN detected_digits |-> detected_digits[k].start]

SweepDurations == [k \in DOMAIN detected_digits |-> detected_digits[k].duration]

GatedStarts == [k \in DOMAIN gated_detections |-> gated_detections[k].start_time]

GatedDurations == [k \in DOMAIN gated_detections |-> gated_detections[k].duration]

(***************************************************************************)
(* C12 as claimed.  In both detection paths the emitted digit events are   *)
(* ordered by strictly increasing start time and never overlap: every      *)
(* event has a duration above zero and the next event starts at or after   *)
(* the previous event's start plus duration; the reported decoded string   *)
(* is exactly the concatenation of the events' digits in that order.       *)
(***************************************************************************)
C12_OrderedPositiveAndJoined ==
  /\ SweepRunComplete =>
       /\ \A k \in DOMAIN detected_digits : detected_digits[k].duration > 0
       /\ OrderedAndDisjoint(SweepStarts, SweepDurations)
       /\ IsConcatenationOf(sequence, detected_digits)
  /\ ReportDone =>
       /\ \A k \in DOMAIN gated_detections : gated_detections[k].duration > 0
       /\ OrderedAndDisjoint(GatedStarts, GatedDurations)
       /\ IsConcatenationOf(gated_sequence, gated_detections)

(***************************************************************************)
(* C12 as the code has it.  In both paths the events are ordered by        *)
(* strictly increasing start time and the next event starts at or after    *)
(* the previous event's start plus duration.  Every event of the sweep has *)
(* a duration above zero; a region-consensus detection has a duration of   *)
(* zero or more, zero only for the last detection when its region starts   *)
(* at the last window (the region left open at the end of the stream by    *)
(* the last window alone).  The reported string is the concatenation of    *)
(* the events' digits in their order, except that the sweep reports        *)
(* "(none)" when it has no event.                                          *)
(***************************************************************************)
C12_OrderedNonNegativeAndJoined ==
  /\ SweepRunComplete =>
       /\ \A k \in DOMAIN detected_digits : detected_digits[k].duration > 0
       /\ OrderedAndDisjoint(SweepStarts, SweepDurations)
       /\ IF detected_digits = <<>>
          THEN sequence = <<"(none)">>
          ELSE IsConcatenationOf(sequence, detected_digits)
  /\ ReportDone =>
       /\ \A k \in DOMAIN gated_detections :
            /\ gated_detections[k].duration >= 0
            /\ gated_detections[k].duration = 0 =>
                 /\ k = Len(gated_detections)
                 /\ gated_detections[k].start_time = windows[Len(windows)].time
       /\ OrderedAndDisjoint(GatedStarts, GatedDurations)
       /\ IsConcatenationOf(gated_sequence, gated_detections)

\* two detections of different digits, the second from the last window alone
C12_Witness ==
  /\ ReportDone
  /\ Len(gated_detections) = 2
  /\ gated_detections[1].digit # gated_detections[2].digit
  /\ gated_detections[1].duration > 0
  /\ gated_detections[2].duration = 0

(***************************************************************************)
(* Vocabulary of the window scans.                                         *)
(***************************************************************************)
\* the window loop of the report has run to its end
ReportScanned == prog = "report" /\ pc # "windows"

\* the offsets of the report's windows (time is offset + window_n // 2)
ReportOffsets == [j \in DOMAIN windows |-> windows[j].time - window_n \div 2]

\* the offsets of the windows of the sweep's current run
SweepOffsets == [a \in DOMAIN sweep_log |-> sweep_log[a].i]

\* the parameter set of the run of the sweep just completed
CompletedParams == param_sets[param_idx - 1]

\* the offsets 0, hop, 2 * hop, ... at which a window of length win ends at
\* or before the end of a buffer of length len
FittingOffsets(len, win, hop) ==
  {k * hop : k \in {k \in 0..(len \div hop) : k * hop + win <= len}}

\* offs lists exactly the members of set
ListsExactly(offs, set) ==
  /\ {offs[j] : j \in DOMAIN offs} = set
  /\ Len(offs) = Cardinality(set)

(***************************************************************************)
(* C13.  The window scan produces a window at every offset 0, hop,         *)
(* 2 * hop, ... for which offset + window_length <= len(buffer), a last    *)
(* window that ends exactly at the end of the buffer and the one window of *)
(* a buffer as long as the window included, and no window that extends     *)
(* past the buffer.                                                        *)
(***************************************************************************)
C13_WindowAtEveryFittingOffset ==
  /\ ReportScanned =>
       ListsExactly(ReportOffsets, FittingOffsets(data_len, window_n, hop_n))
  /\ SweepRunComplete =>
       ListsExactly(SweepOffsets,
                    FittingOffsets(data_len, window_samples(CompletedParams),
                                   hop_samples(CompletedParams)))

(***************************************************************************)
(* C14.  All windows of a run have the same length, window_length, and     *)
(* the hop (int(window_length * (1 - overlap)) in the sweep,               *)
(* window_length // 2 in the report) is an integer of at least 1, so that  *)
(* consecutive window offsets strictly increase.                           *)
(***************************************************************************)
C14_EqualLengthsAndIncreasingOffsets ==
  /\ hop_n >= 1
  /\ \A p \in DOMAIN param_sets : hop_samples(param_sets[p]) >= 1
  /\ prog = "report" =>
       \A j \in DOMAIN windows :
         /\ SliceLen(ReportOffsets[j], window_n, data_len) = window_n
         /\ j > 1 => ReportOffsets[j - 1] < ReportOffsets[j]
  /\ prog = "sweep" =>
       \A a \in DOMAIN sweep_log :
         /\ SliceLen(SweepOffsets[a], window_samples(sweep_log[a].params), data_len)
              = window_samples(sweep_log[a].params)
         /\ a > 1 => SweepOffsets[a - 1] < SweepOffsets[a]

\* two windows of one of the sweep's 150 ms sets, one hop apart
C14_Witness ==
  /\ prog = "sweep"
  /\ Len(sweep_log) >= 2
  /\ sweep_log[2].params.window_ms = 150
  /\ SweepOffsets[2] = SweepOffsets[1] + hop_samples(sweep_log[2].params)

(***************************************************************************)
(* Vocabulary of the burst buffers.                                        *)
(***************************************************************************)
\* the length in samples of the burst of key d in the buffer
BurstLen(d) == block_n * Cardinality({j \in DOMAIN data : data[j].digit = d})

\* duration is within 20% of len
WithinTwentyPercent(duration, len) ==
  /\ 5 * (duration - len) <= len
  /\ 5 * (len - duration) <= len

(***************************************************************************)
(* C15.  For a buffer of tone bursts for 1, 4, 7, * (each at least 150 ms, *)
(* separated by at least 100 ms of silence) the region-consensus path      *)
(* emits exactly four detections, in the order 1, 4, 7, * (every silence   *)
(* gap closes the open region before the next burst opens one), and the    *)
(* duration of each detection is within 20% of the length of its burst.    *)
(***************************************************************************)
C15_FourBurstsFourDetections ==
  (ReportDone /\ data # <<>>) =>
    /\ Len(gated_detections) = 4
    /\ [k \in DOMAIN gated_detections |-> gated_detections[k].digit]
         = <<"1", "4", "7", "*">>
    /\ \A k \in DOMAIN gated_detections :
         WithinTwentyPercent(gated_detections[k].duration,
                             BurstLen(gated_detections[k].digit))

(***************************************************************************)
(* Vocabulary of the silent buffer: every sample is zero exactly when      *)
(* every window has RMS zero, and then every Goertzel magnitude and the    *)
(* peak amplitude are zero.                                                *)
(***************************************************************************)
Zeros == <<0, 0, 0, 0>>

ReportAllSilent ==
  \A j \in DOMAIN windows :
    windows[j].rms = 0 /\ windows[j].goertzel_low = Zeros /\ windows[j].goertzel_high = Zeros

SweepAllSilent ==
  \A a \in DOMAIN sweep_log :
    /\ sweep_log[a].window.rms = 0 /\ sweep_log[a].peak_amp = 0
    /\ sweep_log[a].window.goertzel_low = Zeros
    /\ sweep_log[a].window.goertzel_high = Zeros

(***************************************************************************)
(* C16.  For an all-zero (silent) buffer every window is classified noise, *)
(* there are zero tone regions, and both the assembler of the sweep and    *)
(* the region-consensus path return an empty event list.                   *)
(***************************************************************************)
C16_SilenceDetectsNothing ==
  /\ (RegionsScanned /\ ReportAllSilent) =>
       /\ \A j \in DOMAIN windows : ~IsActive(windows[j])
       /\ active_windows = <<>>
       /\ noise_windows = windows
       /\ tone_regions = <<>>
  /\ (ReportDone /\ ReportAllSilent) =>
       /\ tone_region_analysis = <<>>
       /\ gated_detections = <<>>
       /\ gated_sequence = <<>>
  /\ (SweepRunComplete /\ SweepAllSilent) =>
       /\ \A a \in DOMAIN sweep_log : sweep_log[a].digit = None
       /\ detected_digits = <<>>

\* the report has run to its end on four silent windows
C16_Witness ==
  /\ ReportDone
  /\ Len(windows) = 4
  /\ ReportAllSilent
  /\ gated_detections = <<>>

(***************************************************************************)
(* C17.  If the gate threshold is above the RMS of every window (all       *)
(* windows are classified noise), the run completes normally with zero     *)
(* regions and an empty detection sequence; it never ends in an error      *)
(* state.  Stated for the buffers that hold at least one full window.      *)
(***************************************************************************)
C17_AllNoiseRunCompletes ==
  (/\ prog = "report"
   /\ data_len >= window_n
   /\ \A j \in DOMAIN windows : ~IsActive(windows[j])) =>
    /\ pc # "IndexError"
    /\ RegionsScanned => tone_regions = <<>>
    /\ ReportDone => (gated_detections = <<>> /\ gated_sequence = <<>>)

(***************************************************************************)
(* Vocabulary of the noise floor, computed here from the ranks of the      *)
(* values instead of a sorted list.                                        *)
(***************************************************************************)
\* the k-th smallest of the values of vals, 1 <= k <= Len(vals)
KthSmallest(vals, k) ==
  CHOOSE v \in {vals[j] : j \in DOMAIN vals} :
    /\ Cardinality({j \in DOMAIN vals : vals[j] < v}) < k
    /\ k <= Cardinality({j \in DOMAIN vals : vals[j] <= v})

\* the 95th percentile of vals by linear interpolation, in hundredths
RankPercentile95x100(vals) ==
  LET n  == Len(vals)
      lo == (95 * (n - 1)) \div 100
      fr == (95 * (n - 1)) % 100
  IN  IF lo + 2 <= n
      THEN 100 * KthSmallest(vals, lo + 1)
           + fr * (KthSmallest(vals, lo + 2) - KthSmallest(vals, lo + 1))
      ELSE 100 * KthSmallest(vals, lo + 1)

\* the windows below the energy gate and the largest magnitude of each
NoiseOnly == SelectSeq(windows, LAMBDA w : ~IsActive(w))

NoiseMags ==
  [j \in DOMAIN NoiseOnly |-> Max2(BestLow(NoiseOnly[j]), BestHigh(NoiseOnly[j]))]

(***************************************************************************)
(* C18.  The absolute threshold is always 10 times the noise floor; the    *)
(* noise floor is computed only from the windows classified noise (the     *)
(* magnitudes of active windows never change it), and when there is no     *)
(* noise window it is the default 1000, so that the threshold is 10000.    *)
(***************************************************************************)
C18_ThresholdIsTenNoiseFloors ==
  ReportDone =>
    /\ abs_goertzel_threshold = 10 * noise_floor_g
    /\ NoiseOnly # <<>> => noise_floor_g = RankPercentile95x100(NoiseMags)
    /\ NoiseOnly = <<>> =>
         /\ noise_floor_g = 100 * 1000
         /\ abs_goertzel_threshold = 100 * 10000

\* two noise windows of different magnitudes and an active window louder
\* than both
C18_Witness ==
  /\ ReportDone
  /\ Len(NoiseOnly) = 2
  /\ NoiseMags[1] # NoiseMags[2]
  /\ \E j \in DOMAIN windows :
       /\ IsActive(windows[j])
       /\ BestLow(windows[j]) > NoiseMags[1]
       /\ BestLow(windows[j]) > NoiseMags[2]
  /\ 100 * NoiseMags[1] # noise_floor_g
  /\ 100 * NoiseMags[2] # noise_floor_g

(***************************************************************************)
(* C19.  If window_length is longer than the buffer, or the hop is below   *)
(* 1, the run ends in a configuration error raised before any window is    *)
(* processed: it does not complete with an empty window list and does not  *)
(* fail later in an unrelated step.  So the report never leaves its window *)
(* loop on such a configuration, and the sweep never enters or completes   *)
(* a run on one.                                                           *)
(***************************************************************************)
C19_BadWindowConfigIsRejected ==
  /\ (prog = "report" /\ (window_n > data_len \/ hop_n < 1)) =>
       pc \in {"windows", "ConfigurationError"}
  /\ (prog = "sweep" /\ pc = "sweep_loop") =>
       /\ window_samples(param_sets[param_idx]) <= data_len
       /\ hop_samples(param_sets[param_idx]) >= 1
  /\ SweepRunComplete =>
       /\ window_samples(CompletedParams) <= data_len
       /\ hop_samples(CompletedParams) >= 1

(***************************************************************************)
(* Vocabulary of C21: what each scan has visited.                          *)
(***************************************************************************)
\* the window loop of the report has cut one window per hop below i, in order
ReportWindowsInStep ==
  /\ Len(windows) * hop_n = i
  /\ \A j \in DOMAIN windows : ReportOffsets[j] = (j - 1) * hop_n

\* the region scan is at window w_idx, having consumed the ones before it
RegionScanInStep ==
  (prog = "report" /\ pc = "regions") => w_idx \in 1..(Len(windows) + 1)

\* the sweep's loop has decoded one window per hop below i, in order
SweepWindowsInStep ==
  (prog = "sweep" /\ pc = "sweep_loop") =>
    /\ Len(sweep_log) * hop_samples(param_sets[param_idx]) = i
    /\ \A a \in DOMAIN sweep_log :
         SweepOffsets[a] = (a - 1) * hop_samples(param_sets[param_idx])

\* the scans of the report are over: no offset is left in the range of the
\* window loop, the region scan is past the last window, and a region open
\* at the last window has been closed
ReportScansOver ==
  /\ RegionsScanned
  /\ ~(i < data_len - window_n)
  /\ w_idx = Len(windows) + 1
  /\ in_region => (/\ tone_regions # <<>>
                   /\ tone_regions[Len(tone_regions)][1] = region_start)

\* all parameter sets of the sweep have been run
SweepOver == prog = "sweep" /\ pc = "done" /\ param_idx = Len(param_sets) + 1

\* a completed run of the sweep has used up its range, one window per hop in
\* order, and closed its open event
SweepRunClosed ==
  SweepRunComplete =>
    /\ ~(i < data_len - window_samples(CompletedParams))
    /\ Len(sweep_log) * hop_samples(CompletedParams) = i
    /\ \A a \in DOMAIN sweep_log : SweepOffsets[a] = (a - 1) * hop_samples(CompletedParams)
    /\ last_digit # None =>
         (/\ detected_digits # <<>>
          /\ detected_digits[Len(detected_digits)].digit = last_digit
          /\ detected_digits[Len(detected_digits)].start = digit_start)

\* how far a script has come: the report by its stage, the sweep by its
\* parameter set and whether it is inside that set's loop
ScanStage ==
  IF prog = "report"
  THEN CHOOSE n \in 1..9 :
         <<"windows", "regions", "representative", "heatmap", "table",
           "analysis", "gated", "done", "IndexError">>[n] = pc
  ELSE IF pc = "done" THEN 2 * Len(param_sets) + 4
       ELSE 2 * param_idx + (IF pc = "sweep_loop" THEN 1 ELSE 0)

\* the iterations the running scan still has to make
ScanLeft ==
  IF prog = "report" /\ pc = "windows"
  THEN (IF i < data_len - window_n THEN data_len - window_n - i ELSE 0)
  ELSE IF prog = "report" /\ pc = "regions" THEN Len(windows) + 1 - w_idx
  ELSE IF prog = "sweep" /\ pc = "sweep_loop"
       THEN (IF i < data_len - window_samples(param_sets[param_idx])
             THEN data_len - window_samples(param_sets[param_idx]) - i ELSE 0)
  ELSE 0

\* a step either moves on to a later stage or uses up one iteration of the
\* scan it is in; the region scan moves to the next window
ScanAdvances ==
  /\ \/ ScanStage' > ScanStage
     \/ ScanStage' = ScanStage /\ ScanLeft' < ScanLeft /\ ScanLeft' >= 0
  /\ (prog = "report" /\ pc = "regions" /\ pc' = "regions") => w_idx' = w_idx + 1

\* a script has returned or crashed only with its scans over
StopsOnlyWhenOver ==
  pc \in {"done", "IndexError"} => (ReportScansOver \/ SweepOver)

(***************************************************************************)
(* C21.  For every finite buffer and every configuration, the window scan, *)
(* the region scan and the event-assembly scan each visit every window     *)
(* exactly once in increasing offset order and then finish, reaching the   *)
(* end-of-stream step that closes any open region or event; none of them   *)
(* loops forever or stops early.  Every step moves a scan forward by one   *)
(* window or moves the script to a later stage, of which there are         *)
(* finitely many, and a script stops only with its scans over.             *)
(***************************************************************************)
C21_ScansVisitEachWindowOnceAndFinish ==
  /\ [](/\ prog = "report" => ReportWindowsInStep
        /\ RegionScanInStep
        /\ SweepWindowsInStep
        /\ SweepRunClosed
        /\ RegionsScanned => ReportScansOver
        /\ StopsOnlyWhenOver)
  /\ [][ScanAdvances]_vars

\* the region scan has passed four windows and closed the region that the
\* last of them left open
C21_Witness ==
  /\ ReportScansOver
  /\ Len(windows) = 4
  /\ in_region
  /\ tone_regions[Len(tone_regions)][2] = windows[4].time

(***************************************************************************)
(* C22.  The Goertzel magnitude is never negative, and multiplying every   *)
(* sample of the window by 2 multiplies the magnitude by exactly 2 (its    *)
(* square, which the model keeps, by exactly 4): q1 and q2 are linear in   *)
(* the samples.                                                            *)
(***************************************************************************)
C22_MagnitudeNonNegativeAndLinear ==
  /\ magnitude # <<>> => magnitude[1] >= 0
  /\ (magnitude # <<>> /\ half_magnitude # <<>>) =>
       magnitude[1] = 4 * half_magnitude[1]

\* a window with a non-zero magnitude at bin 1 has been doubled and measured
\* again
C22_Witness ==
  /\ magnitude # <<>> /\ half_magnitude # <<>>
  /\ half_magnitude[1] > 0
  /\ GoertzelBin(Len(samples), target_freq, sweep_rate) = 1
  /\ Len(samples) = 6

(***************************************************************************)
(* C23 as stated.  The start recorded for a tone region is the start time  *)
(* of its first active window (window offset / sample_rate), and the end   *)
(* recorded on an active -> noise transition is the start time of the      *)
(* first inactive window, not those windows' centre times.  Times are in   *)
(* samples; the j-th window starts at offset (j - 1) * hop_n.              *)
(***************************************************************************)
C23_RegionBoundsAreWindowStarts ==
  RegionsScanned =>
    \A a \in RunStarts :
      /\ tone_regions[RunIndex(a)][1] = (a - 1) * hop_n
      /\ ~RunIsOpenAtEnd(a) => tone_regions[RunIndex(a)][2] = RunEnd(a) * hop_n

(***************************************************************************)
(* C23 as the code has it.  The start recorded for a tone region is the    *)
(* centre time of its first active window, (offset + window_n // 2) /      *)
(* rate, and the end recorded on an active -> noise transition is the      *)
(* centre time of the first inactive window.                               *)
(***************************************************************************)
C23_RegionBoundsAreWindowCentres ==
  RegionsScanned =>
    \A a \in RunStarts :
      /\ tone_regions[RunIndex(a)][1] = (a - 1) * hop_n + window_n \div 2
      /\ ~RunIsOpenAtEnd(a) =>
           tone_regions[RunIndex(a)][2] = RunEnd(a) * hop_n + window_n \div 2

\* a region that starts after the first window and is closed by a noise window
C23_Witness ==
  /\ RegionsScanned
  /\ \E a \in RunStarts : a > 1 /\ ~RunIsOpenAtEnd(a) /\ RunEnd(a) > a

\* the region analysis has run
RegionsAnalyzed == prog = "report" /\ pc \in {"gated", "done"}

(***************************************************************************)
(* C24.  Every tone region yields exactly one gated detection and vice     *)
(* versa: for each region the active windows with start <= time <= end are *)
(* not empty (the 'continue' of the region analysis is never taken), hence *)
(* gated_detections, tone_region_analysis and tone_regions have the same   *)
(* length and the same order, with region numbers 1..n and no gaps.        *)
(***************************************************************************)
C24_OneDetectionPerRegion ==
  /\ RegionsScanned =>
       \A k \in DOMAIN tone_regions :
         RegionWins(windows, tone_regions[k][1], tone_regions[k][2]) # <<>>
  /\ RegionsAnalyzed =>
       /\ Len(tone_region_analysis) = Len(tone_regions)
       /\ \A k \in DOMAIN tone_region_analysis :
            /\ tone_region_analysis[k].region = k
            /\ tone_region_analysis[k].start = tone_regions[k][1]
            /\ tone_region_analysis[k].end = tone_regions[k][2]
  /\ ReportDone =>
       /\ Len(gated_detections) = Len(tone_regions)
       /\ \A k \in DOMAIN gated_detections :
            /\ gated_detections[k].start_time = tone_regions[k][1]
            /\ gated_detections[k].end_time = tone_regions[k][2]
            /\ gated_detections[k].digit = tone_region_analysis[k].g_digit

\* two regions have been reported, the first of a single window closed by
\* the next one, the second opened by the last window of the stream
C24_Witness ==
  /\ ReportDone
  /\ Len(gated_detections) = 2
  /\ tone_regions[1][2] - tone_regions[1][1] = hop_n
  /\ tone_regions[2][1] = tone_regions[2][2]

(***************************************************************************)
(* C25.  The representative window chosen for a region is always an active *)
(* window (RMS at or above the gate), although the closed filter           *)
(* r_start <= time <= r_end also admits the inactive window whose time     *)
(* closed the region.                                                      *)
(***************************************************************************)
C25_RepresentativeIsActive ==
  RepresentativesPicked =>
    /\ Len(representative_windows) = Len(tone_regions)
    /\ \A k \in DOMAIN representative_windows :
         /\ IsActive(representative_windows[k])
         /\ \E j \in DOMAIN windows :
              /\ windows[j] = representative_windows[k]
              /\ tone_regions[k][1] <= windows[j].time
              /\ windows[j].time <= tone_regions[k][2]

\* the candidates of a region include the inactive window that closed it
C25_Witness ==
  /\ RepresentativesPicked
  /\ \E k \in DOMAIN tone_regions :
       LET cands == RegionWinsClosed(windows, tone_regions[k][1], tone_regions[k][2])
       IN  /\ Len(cands) >= 3
           /\ ~IsActive(cands[Len(cands)])
           /\ cands[Len(cands)].time = tone_regions[k][2]
           /\ representative_windows[k] = cands[2]

\* the detection info of the a-th window of the run, as the loop builds it
SweepInfoAt(a) ==
  [low_freq |-> sweep_log[a].low_freq, high_freq |-> sweep_log[a].high_freq,
   low_mag |-> sweep_log[a].low_mag, high_mag |-> sweep_log[a].high_mag,
   threshold |-> sweep_log[a].threshold, peak_amp |-> sweep_log[a].peak_amp,
   twist |-> sweep_log[a].twist]

(***************************************************************************)
(* C26.  In the sweep every event's stored info belongs to that event: the *)
(* info's (low_freq, high_freq) maps through the DTMF table to the event's *)
(* digit, and the info is the one recorded at the first window of the      *)
(* event's run.                                                            *)
(***************************************************************************)
C26_EventInfoBelongsToEvent ==
  /\ (prog = "sweep" /\ pc \in {"sweep_loop", "params", "done"}) =>
       \A n \in DOMAIN detected_digits :
         /\ <<detected_digits[n].info.low_freq, detected_digits[n].info.high_freq>>
              \in DOMAIN sweep_dtmf_map_literal
         /\ sweep_dtmf_map_literal[<<detected_digits[n].info.low_freq,
                                     detected_digits[n].info.high_freq>>]
              = detected_digits[n].digit
  /\ SweepRunComplete =>
       \A a \in SweepRunStarts :
         detected_digits[SweepRunIndex(a)].info = SweepInfoAt(a)

\* an event of a run of two windows with different magnitudes, closed by the
\* run of another digit
C26_Witness ==
  /\ SweepRunComplete
  /\ \E a \in SweepRunStarts :
       /\ a + 2 \in SweepRunStarts
       /\ SweepInfoAt(a + 1) # SweepInfoAt(a)
       /\ detected_digits[SweepRunIndex(a)].info = SweepInfoAt(a)
       /\ detected_digits[SweepRunIndex(a)].info # SweepInfoAt(a + 2)

(***************************************************************************)
(* C27.  In the sweep each parameter set starts from fresh assembler state *)
(* (empty detected_digits, last_digit none, no digit_start), so the events *)
(* reported for a parameter set depend only on the buffer and that         *)
(* parameter set, not on the sets run before it or their order: before the *)
(* first window of a set the assembler holds nothing, and at every point   *)
(* of a set's run every event and the open digit come from windows of that *)
(* run, cut with that set's window and hop.                                *)
(***************************************************************************)
C27_EachParameterSetStartsFresh ==
  /\ (prog = "sweep" /\ pc = "sweep_loop" /\ sweep_log = <<>>) =>
       /\ detected_digits = <<>>
       /\ last_digit = None
       /\ digit_start = None
       /\ digit_info = <<>>
       /\ i = 0
  /\ (prog = "sweep" /\ pc = "sweep_loop") =>
       /\ \A a \in DOMAIN sweep_log : sweep_log[a].params = param_sets[param_idx]
       /\ Len(detected_digits) <= Cardinality(SweepRunStarts)
       /\ \A n \in DOMAIN detected_digits :
            \E a \in SweepRunStarts :
              /\ SweepRunIndex(a) = n
              /\ detected_digits[n].start = sweep_log[a].i
              /\ detected_digits[n].digit = sweep_log[a].digit
       /\ last_digit # None =>
            /\ sweep_log # <<>>
            /\ sweep_log[Len(sweep_log)].digit = last_digit
            /\ \E a \in SweepRunStarts : digit_start = sweep_log[a].i

\* the second parameter set has decoded its first window to a digit, after a
\* first set whose run went over two windows or more
C27_Witness ==
  /\ prog = "sweep" /\ pc = "sweep_loop" /\ param_idx = 2
  /\ Len(sweep_log) = 1
  /\ last_digit # None /\ digit_start = 0
  /\ detected_digits = <<>>
  /\ data_len > window_samples(param_sets[1]) + hop_samples(param_sets[1])

\* the bins of the eight filters that a window of n samples is put through:
\* [goertzel(chunk, f, rate) for f in DTMF_LOW], then DTMF_HIGH
FilterBank(n, sample_rate) ==
  [j \in 1..8 |-> GoertzelBin(n, (DTMF_LOW \o DTMF_HIGH)[j], sample_rate)]

\* eight different filters, none at DC and none at or above half the window
BankIsEightFilters(n, sample_rate) ==
  /\ \A a, b \in 1..8 : a # b => FilterBank(n, sample_rate)[a] # FilterBank(n, sample_rate)[b]
  /\ \A a \in 1..8 : /\ 0 < FilterBank(n, sample_rate)[a]
                     /\ 2 * FilterBank(n, sample_rate)[a] < n

(***************************************************************************)
(* C28.  For every window length actually used (1102, 1653 and 2205        *)
(* samples at 11025 Hz in the sweep; 5512 samples at 22050 Hz in the       *)
(* report), the Goertzel bin k = floor(0.5 + N*f/Fs) of the eight DTMF     *)
(* frequencies gives eight pairwise distinct values, each with             *)
(* 0 < k < N/2: whatever window either script is working on, no two        *)
(* filters of its bank are the same filter.                                *)
(***************************************************************************)
C28_BankBinsAreDistinct ==
  /\ prog = "report" =>
       /\ window_n = 5512 /\ rate = 22050
       /\ BankIsEightFilters(window_n, rate)
  /\ (prog = "sweep" /\ param_idx \in DOMAIN param_sets) =>
       /\ window_samples(param_sets[param_idx]) \in {1102, 1653, 2205}
       /\ sweep_rate = 11025
       /\ BankIsEightFilters(window_samples(param_sets[param_idx]), sweep_rate)
  /\ \A a \in DOMAIN sweep_log :
       BankIsEightFilters(window_samples(sweep_log[a].params), sweep_rate)

\* the sweep has put a window of 2205 samples through its bank, the bins of
\* 1336 Hz and 1477 Hz being 267 and 295
C28_Witness ==
  /\ prog = "sweep" /\ pc = "sweep_loop"
  /\ sweep_log # <<>>
  /\ window_samples(sweep_log[1].params) = 2205
  /\ FilterBank(2205, sweep_rate)[6] = 267
  /\ FilterBank(2205, sweep_rate)[7] = 295

\* the commands and the sleep of a complete deployment, in their order
DeployOrder == <<"scp", "prepareota", "sleep", "update">>

\* the deployment has ended
DeployEnded == step \in {"exited", "returned"}

\* the requests sent to the device
DeviceRequests == {k \in DOMAIN calls : calls[k] \in {"prepareota", "update"}}

(***************************************************************************)
(* C29.  upload_via_unraid runs its steps in the fixed order copy firmware *)
(* -> prepare device -> wait -> OTA upload.  No request is sent to the     *)
(* device unless the firmware file exists and the copy succeeded (either   *)
(* failure exits with status 1 first); a failed prepare never aborts, the  *)
(* OTA upload is still attempted; a failed OTA upload exits with status 1, *)
(* and success is reported only after the upload command succeeded.        *)
(***************************************************************************)
C29_DeployStepsInOrder ==
  /\ calls = SubSeq(DeployOrder, 1, Len(calls))
  /\ DeviceRequests # {} => (firmware_exists /\ returncode["scp"] = 0)
  /\ (DeployEnded /\ ~firmware_exists) => (exit_status = "exit 1" /\ calls = <<>>)
  /\ (DeployEnded /\ firmware_exists /\ returncode["scp"] # 0) =>
       (exit_status = "exit 1" /\ calls = <<"scp">>)
  /\ (DeployEnded /\ firmware_exists /\ returncode["scp"] = 0) =>
       /\ calls = DeployOrder
       /\ exit_status = IF returncode["update"] = 0 THEN "returned" ELSE "exit 1"
       /\ printed[Len(printed)] = IF returncode["update"] = 0
                                  THEN "OTA UPDATE SUCCESSFUL" ELSE "OTA UPDATE FAILED"
  /\ ~DeployEnded => exit_status = "running"
  /\ (\E k \in DOMAIN printed : printed[k] = "OTA UPDATE SUCCESSFUL") =>
       /\ calls = DeployOrder
       /\ returncode["update"] = 0
       /\ exit_status = "returned"

\* a deployment whose prepare request failed and whose upload succeeded
C29_Witness ==
  /\ exit_status = "returned"
  /\ returncode["prepareota"] = 1
  /\ calls = DeployOrder
  /\ printed = <<"Firmware copied to Unraid", "HTTP prepare failed", "Ready",
                 "OTA UPDATE SUCCESSFUL">>

\* the reader thread is at a statement of parse_output that writes last_state
ReaderWrites == reader_pc \in {"hook", "audio", "sequence", "errors", "warnings"}

\* the main thread is at a statement of run_interactive_test that writes
\* last_state
MainWrites == \E q \in DOMAIN Questions : main_pc = "append " \o ToString(q)

(***************************************************************************)
(* C30 as stated.  In the serial tester every write to the shared          *)
(* last_state, by the reader thread's parse_output and by the main         *)
(* thread's interactive test, is made while holding output_lock, so the    *)
(* two threads are never both at a write of last_state.                    *)
(***************************************************************************)
C30_EveryWriteHoldsTheLock ==
  /\ ReaderWrites => output_lock = "reader"
  /\ MainWrites => output_lock = "main"
  /\ ~(ReaderWrites /\ MainWrites)

=============================================================================
